---------------------------- MODULE Spec2Model ----------------------------
(***************************************************************************)
(* Model of the magnetosensitivity knowledge-base Neo4j exporter           *)
(* (scripts/neo4j_exporter.py, scripts/neo4j_schema.py,                    *)
(* scripts/neo4j_connection.py), of the processing status tracker          *)
(* (scripts/processing_status.py) and of the master index update           *)
(* (scripts/process_paper.py).                                             *)
(*                                                                         *)
(* Python values are modelled as follows.  A dict is a function whose      *)
(* domain is the set of its keys (a missing key is a missing domain        *)
(* element); an insertion-ordered dict that the code iterates is a         *)
(* sequence of entries with distinct keys; a list the code iterates is a   *)
(* tuple; property values are strings; None is the token None; a property  *)
(* value of a type the backend cannot store is the token Unsupported.      *)
(***************************************************************************)
EXTENDS Integers, Sequences, FiniteSets, TLC

VARIABLES
    papers,        \* master-index.json "papers": the list load_papers returns
    terms,         \* terms.json: the dict load_ontology_terms returns
    rels,          \* relationships.json: the dict load_ontology_relationships returns
    reachable,     \* whether GraphDatabase.driver(...) succeeds
    nodes,         \* the backend's nodes, in creation order
    edges,         \* the backend's relationships, in creation order
    indexes,       \* the backend's indexes and constraints, each on <<label, property>>
    pc,            \* position of the running export_to_neo4j call
    run,           \* locals and outcome of the current / last export_to_neo4j call
    hist,          \* <<node count, relationship count>> after each finished run
    preview,       \* what the last preview_export call printed
    fcall,         \* arguments and result of the last filter_subgraph call
    lookup,        \* arguments and results of the last schema lookups
    cmd,           \* the command line main() was started with, and its exit
    start,         \* the backend's graph before the first run, and where a
                   \* run was interrupted
    status,        \* index/processing_status.json, or NoStatusFile
    master_index   \* index/master-index.json as process_paper.py loads it

vars == <<papers, terms, rels, reachable, nodes, edges, indexes, pc, run, hist,
          preview, fcall, lookup, cmd, start, status, master_index>>

(***************************************************************************)
(* Python values                                                           *)
(***************************************************************************)
None == "<None>"
Unsupported == "<unsupported>"
Unbound == "<unbound>"
EmptyDict == <<>>

HasKey(d, k) == k \in DOMAIN d

\* dict.get(k, default)
Get(d, k, default) == IF HasKey(d, k) THEN d[k] ELSE default

\* d with d[k] = v
Put(d, k, v) == [x \in DOMAIN d \cup {k} |-> IF x = k THEN v ELSE d[x]]

\* d without the key k
Del(d, k) == [x \in DOMAIN d \ {k} |-> d[x]]

Range(s) == {s[i] : i \in DOMAIN s}

(***************************************************************************)
(* neo4j_schema.py                                                         *)
(***************************************************************************)
NODE_TYPES ==
    {"Paper", "Term", "Protein", "Organism", "Technique", "MagneticField",
     "Cofactor", "Mechanism"}

RELATIONSHIP_TYPES ==
    {"CITES", "STUDIES", "USES_TECHNIQUE", "DEFINES_TERM", "IS_A", "RELATED_TO",
     "EXHIBITS", "CONTAINS", "DETECTS", "MODELS", "SENSITIVE_TO", "REQUIRES",
     "FORMS_RADICAL_PAIR_WITH", "ELECTRON_DONOR_FOR"}

\* the "indexes" lists of NODE_TYPES, in declaration order
NODE_INDEXES ==
    << <<"Paper", "paper_id">>, <<"Paper", "doi">>,
       <<"Term", "term_id">>, <<"Term", "category">>,
       <<"Protein", "name">>,
       <<"Organism", "name">>,
       <<"Technique", "name">>, <<"Technique", "type">>,
       <<"MagneticField", "name">>,
       <<"Cofactor", "name">>,
       <<"Mechanism", "name">> >>

ONTOLOGY_CATEGORY_MAPPING ==
    [mechanisms |-> "Mechanism",
     proteins |-> "Protein",
     cofactors_and_radicals |-> "Cofactor",
     organisms |-> "Organism",
     magnetic_fields |-> "MagneticField",
     experimental_techniques |-> "Technique",
     computational_methods |-> "Technique",
     magnetic_interactions |-> "Term",
     photochemistry |-> "Term",
     spin_states |-> "Term"]

PREDICATE_MAPPING ==
    [is_a |-> "IS_A",
     contains |-> "CONTAINS",
     exhibits |-> "EXHIBITS",
     located_in |-> "RELATED_TO",
     related_to |-> "RELATED_TO",
     sensitive_to |-> "SENSITIVE_TO",
     requires |-> "REQUIRES",
     depends_on |-> "RELATED_TO",
     detects |-> "DETECTS",
     measures |-> "DETECTS",
     monitors |-> "DETECTS",
     models |-> "MODELS",
     predicts |-> "MODELS",
     drives |-> "REQUIRES",
     provides |-> "RELATED_TO",
     isolates |-> "RELATED_TO",
     cofactor_of |-> "CONTAINS",
     forms_radical_pair_with |-> "FORMS_RADICAL_PAIR_WITH",
     electron_donor_for |-> "ELECTRON_DONOR_FOR",
     triggers |-> "REQUIRES",
     forms |-> "RELATED_TO",
     interconverts_with |-> "RELATED_TO",
     uses |-> "RELATED_TO",
     produces |-> "RELATED_TO",
     characteristic_of |-> "RELATED_TO",
     enhances |-> "RELATED_TO"]

\* a lookup that indexes the table directly: raises KeyError on an unmapped key
KeyError == "<KeyError>"
node_type_by_index(category) ==
    IF HasKey(ONTOLOGY_CATEGORY_MAPPING, category)
    THEN ONTOLOGY_CATEGORY_MAPPING[category] ELSE KeyError

\* a lookup that falls back on the category itself
node_type_or_category(category) ==
    Get(ONTOLOGY_CATEGORY_MAPPING, category, category)

get_node_type_for_category(category) ==
    Get(ONTOLOGY_CATEGORY_MAPPING, category, "Term")

get_relationship_type_for_predicate(predicate) ==
    Get(PREDICATE_MAPPING, predicate, "RELATED_TO")


(***************************************************************************)
(* The backend: what one auto-commit Cypher query of the exporter does to  *)
(* the graph.  A graph g is [nodes |-> ..., edges |-> ...]; a node is      *)
(* [label, props], a relationship is [src, type, dst, props] with src and  *)
(* dst positions in nodes.                                                 *)
(***************************************************************************)

\* SET n = upd: the properties are replaced by upd, none is kept
ReplaceProps(props, upd) ==
    [k \in {x \in DOMAIN upd : upd[x] # None} |-> upd[k]]

\* ON CREATE SET: a property the node already has keeps its value
SetPropsIfAbsent(props, upd) ==
    LET keys == DOMAIN props \cup {k \in DOMAIN upd : upd[k] # None}
    IN  [k \in keys |-> IF HasKey(props, k) THEN props[k] ELSE upd[k]]

\* SET n += upd, and SET n.k = v for each k: a null value removes the property
SetProps(props, upd) ==
    LET gone == {k \in DOMAIN upd : upd[k] = None}
        keys == (DOMAIN props \cup DOMAIN upd) \ gone
    IN  [k \in keys |-> IF HasKey(upd, k) THEN upd[k] ELSE props[k]]

\* the driver or the server refuses the query: a parameter it cannot store,
\* or a null value for the property MERGE matches on
Rejected(params, mergeKeys) ==
    \/ \E k \in DOMAIN params : params[k] = Unsupported
    \/ \E k \in mergeKeys : params[k] = None

\* CREATE (n:label {key: value}) SET n += upd: a node is made on every write
CreateNode(g, label, key, value, upd) ==
    [g EXCEPT !.nodes =
        Append(@, [label |-> label,
                   props |-> SetProps(Put(EmptyDict, key, value), upd)])]

\* MERGE (n:label {key: value}) SET n += upd
MergeNode(g, label, key, value, upd) ==
    LET matched == {i \in DOMAIN g.nodes :
                        /\ g.nodes[i].label = label
                        /\ Get(g.nodes[i].props, key, None) = value}
        fresh   == [label |-> label, props |-> Put(EmptyDict, key, value)]
        nodes1  == IF matched = {} THEN Append(g.nodes, fresh) ELSE g.nodes
        hit     == IF matched = {} THEN {Len(nodes1)} ELSE matched
    IN  [g EXCEPT !.nodes =
            [i \in DOMAIN nodes1 |->
                IF i \in hit
                THEN [nodes1[i] EXCEPT !.props = SetProps(@, upd)]
                ELSE nodes1[i]]]

\* the nodes MATCH (a {name: $name}) binds, whatever their label
MatchByName(g, name) ==
    {i \in DOMAIN g.nodes : Get(g.nodes[i].props, "name", None) = name}

\* CREATE (a)-[r:type]->(b) SET r += upd: a relationship is made on every write
CreateEdge(es, a, type, b, upd) ==
    Append(es, [src |-> a, type |-> type, dst |-> b,
                props |-> SetProps(EmptyDict, upd)])

\* MERGE (a)-[r:type]->(b) SET r += upd, for one bound pair (a, b)
MergeEdge(es, a, type, b, upd) ==
    LET matched == {i \in DOMAIN es :
                        es[i].src = a /\ es[i].type = type /\ es[i].dst = b}
        fresh   == [src |-> a, type |-> type, dst |-> b, props |-> EmptyDict]
        es1     == IF matched = {} THEN Append(es, fresh) ELSE es
        hit     == IF matched = {} THEN {Len(es1)} ELSE matched
    IN  [i \in DOMAIN es1 |->
            IF i \in hit THEN [es1[i] EXCEPT !.props = SetProps(@, upd)]
            ELSE es1[i]]

\* the rows of the two MATCH clauses, in node order
RECURSIVE MergeEdgeRows(_, _, _, _)
MergeEdgeRows(es, rows, type, upd) ==
    IF rows = {} THEN es
    ELSE LET r == CHOOSE x \in rows :
                     \A y \in rows : x[1] < y[1] \/ (x[1] = y[1] /\ x[2] <= y[2])
         IN  MergeEdgeRows(MergeEdge(es, r[1], type, r[2], upd),
                           rows \ {r}, type, upd)

\* MERGE (a:Term {name: $subject}) MERGE (b:Term {name: $object})
\* MERGE (a)-[r:type]->(b): an endpoint that is missing is made
MergeEndpointsEdge(g, subject, object, type, upd) ==
    LET g1 == IF MatchByName(g, subject) = {}
              THEN MergeNode(g, "Term", "name", subject, EmptyDict) ELSE g
        g2 == IF MatchByName(g1, object) = {}
              THEN MergeNode(g1, "Term", "name", object, EmptyDict) ELSE g1
    IN  [g2 EXCEPT !.edges =
            MergeEdgeRows(@, MatchByName(g2, subject) \X MatchByName(g2, object),
                          type, upd)]

\* MATCH (a {name: $subject}) MATCH (b {name: $object})
\* MERGE (a)-[r:type]->(b) SET r.predicate = $predicate, r.source = $source
\* no row is bound when either MATCH finds nothing, and the query then
\* does nothing and succeeds
MatchMergeEdge(g, subject, object, type, upd) ==
    [g EXCEPT !.edges =
        MergeEdgeRows(@, MatchByName(g, subject) \X MatchByName(g, object),
                      type, upd)]


(***************************************************************************)
(* neo4j_exporter.py: the three write loops.  A loop state st is           *)
(*   g        the graph                                                    *)
(*   created  the loop's counter                                           *)
(*   tried    the items whose try block was entered, in order              *)
(*   writes   the queries handed to session.run, in order                  *)
(*   failed   the items whose failure the except clause printed            *)
(*   resolved the relationship writes whose two MATCH clauses bound a row  *)
(*   raised   the exception that left the function, or None                *)
(*   subject, predicate, obj   the locals of create_relationships          *)
(***************************************************************************)
NewLoop(g) ==
    [g |-> g, created |-> 0, tried |-> <<>>, writes |-> <<>>, failed |-> <<>>,
     resolved |-> <<>>, raised |-> None, subject |-> Unbound, predicate |-> Unbound,
     obj |-> Unbound]

Item(kind, type, at) == [kind |-> kind, type |-> type, at |-> at]

Tried(st, it)   == [st EXCEPT !.tried = Append(@, it)]
Wrote(st, it)   == [st EXCEPT !.writes = Append(@, it)]
Failed(st, it)  == [st EXCEPT !.failed = Append(@, it)]
Raise(st, exc)  == [st EXCEPT !.raised = exc]

\* the relationship query of it ran: whether it bound both endpoints
Resolved(st, it, params) ==
    IF \/ MatchByName(st.g, params.subject) = {}
       \/ MatchByName(st.g, params.object) = {}
    THEN st ELSE [st EXCEPT !.resolved = Append(@, it)]

\* session.run(query, paper_id=..., doi=..., ...) of create_paper_nodes
PaperParams(paper) ==
    [paper_id   |-> paper["paper_id"],
     doi        |-> Get(paper, "doi", ""),
     title      |-> Get(paper, "title", ""),
     authors    |-> Get(paper, "authors", "[]"),
     year       |-> Get(paper, "year", None),
     date_added |-> Get(paper, "date_added", "")]

\* the except clause of create_paper_nodes: its message reads paper['paper_id']
PaperExcept(st, paper, it) ==
    IF HasKey(paper, "paper_id") THEN Failed(st, it) ELSE Raise(st, "KeyError")

\* one iteration of "for paper in papers"
PaperStep(st, paper, i) ==
    LET it  == Item("node", "Paper", <<i>>)
        st1 == Tried(st, it)
    IN  IF ~HasKey(paper, "paper_id") THEN PaperExcept(st1, paper, it)
        ELSE LET params == PaperParams(paper)
                 st2    == Wrote(st1, it)
             IN  IF Rejected(params, {"paper_id"})
                 THEN PaperExcept(st2, paper, it)
                 ELSE [st2 EXCEPT
                         !.g = MergeNode(@, "Paper", "paper_id", params.paper_id,
                                         Del(params, "paper_id")),
                         !.created = @ + 1]

RECURSIVE PaperLoop(_, _, _)
PaperLoop(st, ps, i) ==
    IF i > Len(ps) \/ st.raised # None THEN st
    ELSE PaperLoop(PaperStep(st, ps[i], i), ps, i + 1)

create_paper_nodes(g, ps) == PaperLoop(NewLoop(g), ps, 1)

\* a value with no .get method: a JSON list where a term's dict is expected
NotADict == [json_list |-> "not a dict"]
IsDict(v) == ~HasKey(v, "json_list")

OptionalTermFields ==
    {"synonyms", "variants", "organisms", "radical_forms", "typical_values",
     "applications"}

\* the props dict create_term_nodes builds for one term
TermProps(term_id, term_data) ==
    LET opt == DOMAIN term_data \cap OptionalTermFields
    IN  [k \in {"name", "definition", "source"} \cup opt |->
            IF k = "name" THEN term_id
            ELSE IF k \in opt THEN term_data[k]
            ELSE Get(term_data, k, "")]

\* one iteration of "for term_id, term_data in cat_terms.items()"
TermStep(st, node_type, term, at) ==
    LET it  == Item("node", node_type, at)
        st1 == Tried(st, it)
    IN  IF ~IsDict(term.data) THEN Failed(st1, it)
        ELSE LET props == TermProps(term.id, term.data)
                 st2   == Wrote(st1, it)
             IN  IF Rejected(props, {"name"}) THEN Failed(st2, it)
                 ELSE [st2 EXCEPT
                         !.g = MergeNode(@, node_type, "name", term.id, props),
                         !.created = @ + 1]

RECURSIVE TermLoop(_, _, _, _, _)
TermLoop(st, node_type, ts, c, i) ==
    IF i > Len(ts) THEN st
    ELSE TermLoop(TermStep(st, node_type, ts[i], <<c, i>>), node_type, ts, c, i + 1)

\* terms.get("categories", {}) as the sequence of its items
Categories(doc) == Get(doc, "categories", <<>>)

RECURSIVE CategoryLoop(_, _, _)
CategoryLoop(st, cats, c) ==
    IF c > Len(cats) THEN st
    ELSE CategoryLoop(
            TermLoop(st, get_node_type_for_category(cats[c].cat),
                     cats[c].terms, c, 1),
            cats, c + 1)

create_term_nodes(g, doc) == CategoryLoop(NewLoop(g), Categories(doc), 1)

\* the except clause of create_relationships: its message reads the locals
\* subject, predicate and obj, which are assigned in the try block
RelExcept(st, it) ==
    IF Unbound \in {st.subject, st.predicate, st.obj}
    THEN Raise(st, "UnboundLocalError")
    ELSE Failed(st, it)

\* the parameters of the relationship query, from the loop's locals
RelParams(st, source) ==
    [subject |-> st.subject, object |-> st.obj, predicate |-> st.predicate,
     source |-> source]

\* a write that looks the endpoints up first and reports a missing one as a
\* failure without running the query
RelWriteIfResolved(st, it, params) ==
    IF \/ MatchByName(st.g, params.subject) = {}
       \/ MatchByName(st.g, params.object) = {}
    THEN RelExcept(st, it)
    ELSE LET st4 == Wrote(st, it)
         IN  IF Rejected(params, {}) THEN RelExcept(st4, it)
             ELSE [Resolved(st4, it, params) EXCEPT
                     !.g = MatchMergeEdge(@, params.subject, params.object,
                             it.type, [predicate |-> params.predicate,
                                       source |-> params.source]),
                     !.created = @ + 1]

\* session.run(query, subject=..., object=..., predicate=..., source=...)
\* followed by created += 1, or the except clause when the query raises
RelWrite(st, it, params) ==
    LET st4 == Wrote(st, it)
    IN  IF Rejected(params, {}) THEN RelExcept(st4, it)
        ELSE [Resolved(st4, it, params) EXCEPT
                !.g = MatchMergeEdge(@, params.subject, params.object, it.type,
                        [predicate |-> params.predicate,
                         source |-> params.source]),
                !.created = @ + 1]

\* one iteration of "for rel in rels"
RelStep(st, rel, i) ==
    LET it0 == Item("rel", Unbound, <<i>>)
        st0 == Tried(st, it0)
    IN  IF ~HasKey(rel, "subject") THEN RelExcept(st0, it0) ELSE
        LET st1 == [st0 EXCEPT !.subject = rel["subject"]]
        IN  IF ~HasKey(rel, "predicate") THEN RelExcept(st1, it0) ELSE
        LET st2 == [st1 EXCEPT !.predicate = rel["predicate"]]
        IN  IF ~HasKey(rel, "object") THEN RelExcept(st2, it0) ELSE
        LET rel_type == get_relationship_type_for_predicate(st2.predicate)
            it       == Item("rel", rel_type, <<i>>)
            st3      == [st2 EXCEPT !.obj = rel["object"],
                                    !.tried = Append(st.tried, it)]
        IN  RelWrite(st3, it, RelParams(st3, Get(rel, "source", "")))

RECURSIVE RelLoop(_, _, _)
RelLoop(st, rs, i) ==
    IF i > Len(rs) \/ st.raised # None THEN st
    ELSE RelLoop(RelStep(st, rs[i], i), rs, i + 1)

\* relationships.get("relationships", [])
Relationships(doc) == Get(doc, "relationships", <<>>)

create_relationships(g, doc) == RelLoop(NewLoop(g), Relationships(doc), 1)


(***************************************************************************)
(* neo4j_schema.create_indexes and neo4j_exporter.preview_export           *)
(***************************************************************************)

\* The backend's schema is a set of indexes and uniqueness constraints, each
\* on a <<label, property>>.
IndexOn(on) == [kind |-> "index", on |-> on]
ConstraintOn(on) == [kind |-> "constraint", on |-> on]

\* CREATE INDEX IF NOT EXISTS FOR (n:label) ON (n.prop): nothing happens when
\* the index exists, and the backend refuses it when a constraint on the same
\* label and property already owns an index
CreateIndex(ixs, on) ==
    IF ConstraintOn(on) \in ixs
    THEN [ixs |-> ixs, raised |-> "ClientError"]
    ELSE [ixs |-> ixs \cup {IndexOn(on)}, raised |-> None]

\* the try / except around one index
IndexStep(st, on) ==
    LET r == CreateIndex(st.ixs, on)
    IN  [ixs |-> r.ixs, tried |-> Append(st.tried, on),
         failed |-> IF r.raised = None THEN st.failed ELSE Append(st.failed, on)]

\* a loop that gives up at the first index the backend refuses
RECURSIVE IndexLoopBreak(_, _, _)
IndexLoopBreak(st, todo, i) ==
    IF i > Len(todo) \/ st.failed # <<>> THEN st
    ELSE IndexLoopBreak(IndexStep(st, todo[i]), todo, i + 1)

\* "for node_type, spec in NODE_TYPES.items(): for index_prop in
\* spec['indexes']", over the entries todo from the i-th on
RECURSIVE IndexLoop(_, _, _)
IndexLoop(st, todo, i) ==
    IF i > Len(todo) THEN st
    ELSE IndexLoop(IndexStep(st, todo[i]), todo, i + 1)

\* create_indexes(session), and what is left of it when it is stopped after
\* the first n entries
create_indexes_upto(ixs, n) ==
    IndexLoop([ixs |-> ixs, tried |-> <<>>, failed |-> <<>>],
              SubSeq(NODE_INDEXES, 1, n), 1)

create_indexes(ixs) == create_indexes_upto(ixs, Len(NODE_INDEXES))

\* a count that adds 1 for a category where the code adds len(cat_terms)
RECURSIVE TermCountCategories(_, _, _)
TermCountCategories(cats, node_type, c) ==
    IF c > Len(cats) THEN 0
    ELSE (IF get_node_type_for_category(cats[c].cat) = node_type
          THEN 1 ELSE 0) + TermCountCategories(cats, node_type, c + 1)

RECURSIVE TermCount(_, _, _)
\* the sum of len(cat_terms) over the categories that resolve to node_type
TermCount(cats, node_type, c) ==
    IF c > Len(cats) THEN 0
    ELSE (IF get_node_type_for_category(cats[c].cat) = node_type
          THEN Len(cats[c].terms) ELSE 0) + TermCount(cats, node_type, c + 1)

\* node_counts of preview_export: a defaultdict holding the keys it touched
NodeCounts(ps, doc) ==
    LET cats == Categories(doc)
    IN  [t \in {"Paper"} \cup
               {get_node_type_for_category(cats[c].cat) : c \in DOMAIN cats} |->
            (IF t = "Paper" THEN Len(ps) ELSE 0) + TermCount(cats, t, 1)]

\* rel_counts of preview_export, over well-formed relationship records
RelCounts(rs) ==
    [t \in {get_relationship_type_for_predicate(rs[i]["predicate"]) :
                i \in DOMAIN rs} |->
        Cardinality({i \in DOMAIN rs :
            get_relationship_type_for_predicate(rs[i]["predicate"]) = t})]

PreviewListing == 10

\* sum(counts.values())
SumOver(f) ==
    LET RECURSIVE S(_)
        S(D) == IF D = {} THEN 0
                ELSE LET k == CHOOSE x \in D : TRUE IN f[k] + S(D \ {k})
    IN  S(DOMAIN f)

\* preview_export: the two printed tables, and the exception that ends it
\* early (rel["predicate"] while counting, p['paper_id'] while listing)
preview_export(ps, doc, rdoc) ==
    LET rs == Relationships(rdoc)
    IN  IF \E i \in DOMAIN rs : ~HasKey(rs[i], "predicate")
        THEN [node_counts |-> NodeCounts(ps, doc), rel_counts |-> EmptyDict,
              node_total |-> SumOver(NodeCounts(ps, doc)),
              raised |-> "KeyError", printed |-> {"nodes"}]
        ELSE [node_counts |-> NodeCounts(ps, doc), rel_counts |-> RelCounts(rs),
              node_total |-> SumOver(NodeCounts(ps, doc)),
              rel_total |-> SumOver(RelCounts(rs)),
              raised |-> IF \E i \in DOMAIN ps :
                               i <= PreviewListing /\ ~HasKey(ps[i], "paper_id")
                         THEN "KeyError" ELSE None,
              printed |-> {"nodes", "rels"}]

NoPreview == [printed |-> {}]

(***************************************************************************)
(* The corpora and backends the exporter is run on                         *)
(***************************************************************************)
MaxItems == 3
MaxInitNodes == 1
MaxRuns == 2

SeqsUpTo(S, n) == UNION {[1..k -> S] : k \in 0..n}

\* paper records: complete, same paper_id with other fields, no paper_id,
\* and one with a field the backend cannot store
PaperRecs ==
    {[paper_id |-> "p1", title |-> "t1", doi |-> "10.1000/x", year |-> "2020"],
     [paper_id |-> "p1", title |-> "t2"],
     [title |-> "t1"],
     [paper_id |-> "p2", title |-> "t1", authors |-> Unsupported]}

\* terms as (category, term_id, term_data)
TermItems ==
    {[cat |-> "mechanisms", id |-> "a",
      data |-> [definition |-> "d1", source |-> "s1"]],
     [cat |-> "proteins", id |-> "b",
      data |-> [definition |-> "d2", organisms |-> "o1"]],
     [cat |-> "novel_category", id |-> "a",
      data |-> [definition |-> "d3", synonyms |-> "y1"]],
     [cat |-> "proteins", id |-> "c", data |-> NotADict]}

\* relationship records: between two terms, from a name that is no term and
\* with an unmapped predicate, without object, and one with a field the
\* backend cannot store
RelRecs ==
    {[subject |-> "a", predicate |-> "is_a", object |-> "b", source |-> "s1"],
     [subject |-> "x", predicate |-> "binds", object |-> "b"],
     [subject |-> "a", predicate |-> "contains"],
     [subject |-> "a", predicate |-> "is_a", object |-> "b",
      source |-> Unsupported]}

\* the insertion-ordered dict of dicts that a list of term items spells
AddTerm(cats, item) ==
    LET e == [id |-> item.id, data |-> item.data]
    IN  IF \E c \in DOMAIN cats : cats[c].cat = item.cat
        THEN [c \in DOMAIN cats |->
                IF cats[c].cat = item.cat
                THEN [cats[c] EXCEPT !.terms = Append(@, e)] ELSE cats[c]]
        ELSE Append(cats, [cat |-> item.cat, terms |-> <<e>>])

RECURSIVE GroupTerms(_, _)
GroupTerms(items, i) ==
    IF i = 0 THEN <<>> ELSE AddTerm(GroupTerms(items, i - 1), items[i])

DistinctKeys(items) ==
    \A i, j \in DOMAIN items :
        i # j => <<items[i].cat, items[i].id>> # <<items[j].cat, items[j].id>>

TermDoc(items) == [categories |-> GroupTerms(items, Len(items))]

TermLists(univ, n) == {ts \in SeqsUpTo(univ, n) : DistinctKeys(ts)}

\* nodes a backend may hold before the first run
InitNodes ==
    << [label |-> "Term", props |-> [name |-> "x"]],
       [label |-> "Paper", props |-> [paper_id |-> "p1", title |-> "t0",
                                      year |-> "1999", journal |-> "j0"]],
       [label |-> "Protein", props |-> [name |-> "a", variants |-> "v0"]] >>

InitGraphs ==
    {SelectSeq(InitNodes, LAMBDA n : n \in S) :
        S \in {T \in SUBSET Range(InitNodes) : Cardinality(T) <= MaxInitNodes}}

(***************************************************************************)
(* export_to_neo4j, one action per phase                                   *)
(***************************************************************************)
NoRun ==
    [outcome |-> "none", tried |-> <<>>, writes |-> <<>>, failed |-> <<>>,
     resolved |-> <<>>, paper_count |-> -1, term_count |-> -1, rel_count |-> -1, raised |-> None,
     ix_tried |-> <<>>, ix_failed |-> <<>>,
     acquired |-> 0, released |-> 0, outside |-> 0]

\* a connect that swallows the failure
connect_quietly(ok) == None

\* self.conn.connect(): GraphDatabase.driver(...) returns or raises
connect(ok) == IF ok THEN None ELSE "ServiceUnavailable"

\* self.conn.get_session(): one more session of the run r
get_session(r) == [r EXCEPT !.acquired = @ + 1]

\* a with block that leaves its session open
LeaveOpen(r) == r

\* leaving "with ... as session", by its end or by an exception
ExitWith(r) == [r EXCEPT !.released = @ + 1]

\* the run r has one session open
InSession(r) == r.acquired = r.released + 1

\* n queries of the run r, counted when no session of the run is open
Issued(r, n) == [r EXCEPT !.outside = @ + (IF InSession(r) THEN 0 ELSE n)]

\* get_database_info(): the counts, read in a session of its own
get_database_info(r) == ExitWith(get_session(r))

\* load_status() finds no processing_status.json
NoStatusFile == [missing |-> TRUE]

NoCall == [called |-> FALSE]
NoCmd == [mode |-> "none"]

\* the graph a sequence of runs starts from, no run interrupted yet
Started(ns, es) == [g |-> [nodes |-> ns, edges |-> es], cut |-> <<>>]
NoLookup == [called |-> "none"]

Graph == [nodes |-> nodes, edges |-> edges]

\* what a write loop did, added to the run's record
Logged(st) ==
    [Issued(run, Len(st.writes)) EXCEPT
        !.tried = @ \o st.tried, !.writes = @ \o st.writes,
        !.failed = @ \o st.failed, !.resolved = @ \o st.resolved,
        !.raised = st.raised]

\* the run ends: the finished export, or the exception reaching main()
Ended(r, outcome, ns, es) ==
    /\ run' = [r EXCEPT !.outcome = outcome]
    /\ hist' = Append(hist, <<Len(ns), Len(es)>>)
    /\ pc' = "idle"

\* the papers, terms and relationships export_to_neo4j is called with: the
\* loaded corpus (export_full) or the filtered one (export_subgraph)
Exported ==
    IF cmd.mode = "export-subgraph"
    THEN [papers |-> fcall.result.papers, terms |-> fcall.result.terms,
          rels |-> fcall.result.rels]
    ELSE [papers |-> papers, terms |-> terms, rels |-> rels]

\* export_to_neo4j up to self.conn.connect() and get_session()
StartRun ==
    IF connect(reachable) = None
    THEN /\ run' = get_session([NoRun EXCEPT !.outcome = "running"])
         /\ pc' = "indexes"
         /\ UNCHANGED hist
    ELSE Ended([NoRun EXCEPT !.raised = connect(reachable)], "error",
               nodes, edges)

\* export_full() up to self.conn.connect() and get_session()
export_full ==
    /\ pc = "idle"
    /\ Len(hist) < MaxRuns
    /\ StartRun
    /\ UNCHANGED <<papers, terms, rels, reachable, nodes, edges, indexes,
                   preview, fcall, lookup,
                   cmd, start,
                   status, master_index>>

CreateIndexes ==
    /\ pc = "indexes"
    /\ LET st == create_indexes(indexes)
       IN  /\ indexes' = st.ixs
           /\ run' = [Issued(run, Len(st.tried)) EXCEPT
                        !.ix_tried = st.tried, !.ix_failed = st.failed]
    /\ pc' = "papers"
    /\ UNCHANGED <<papers, terms, rels, reachable, nodes, edges, hist,
                   preview, fcall, lookup,
                   cmd, start,
                   status, master_index>>

\* a run that goes from the papers straight to the relationships and
\* writes the terms last
AfterLoopTermsLast(st, r, next) ==
    /\ nodes' = st.g.nodes
    /\ edges' = st.g.edges
    /\ IF st.raised # None
       THEN Ended(ExitWith(r), "error", st.g.nodes, st.g.edges)
       ELSE /\ run' = r
            /\ pc' = (IF pc = "papers" THEN "rels"
                      ELSE IF pc = "rels" /\ r.term_count < 0 THEN "terms"
                      ELSE "report")
            /\ UNCHANGED hist
    /\ UNCHANGED <<papers, terms, rels, reachable, indexes, preview, fcall,
                   lookup,
                   cmd, start,
                   status, master_index>>

\* a write loop st has run: the graph it left, and either the next phase or
\* the exception leaving export_to_neo4j through the with block
AfterLoop(st, r, next) ==
    /\ nodes' = st.g.nodes
    /\ edges' = st.g.edges
    /\ IF st.raised # None
       THEN Ended(ExitWith(r), "error", st.g.nodes, st.g.edges)
       ELSE run' = r /\ pc' = next /\ UNCHANGED hist
    /\ UNCHANGED <<papers, terms, rels, reachable, indexes, preview, fcall,
                   lookup,
                   cmd, start,
                   status, master_index>>

CreatePaperNodes ==
    /\ pc = "papers"
    /\ LET st == create_paper_nodes(Graph, Exported.papers)
       IN  AfterLoop(st, [Logged(st) EXCEPT !.paper_count =
                            IF st.raised = None THEN st.created ELSE @],
                     "terms")

CreateTermNodes ==
    /\ pc = "terms"
    /\ LET st == create_term_nodes(Graph, Exported.terms)
       IN  AfterLoop(st, [Logged(st) EXCEPT !.term_count = st.created], "rels")

CreateRelationships ==
    /\ pc = "rels"
    /\ LET st == create_relationships(Graph, Exported.rels)
       IN  AfterLoop(st, [Logged(st) EXCEPT !.rel_count =
                            IF st.raised = None THEN st.created ELSE @],
                     "report")

\* the EXPORT COMPLETE report, get_database_info() and close()
Report ==
    /\ pc = "report"
    /\ Ended(get_database_info(ExitWith(run)), "complete", nodes, edges)
    /\ UNCHANGED <<papers, terms, rels, reachable, nodes, edges, indexes,
                   preview, fcall, lookup,
                   cmd, start,
                   status, master_index>>

\* preview_full()
preview_full ==
    /\ pc = "idle"
    /\ preview = NoPreview
    /\ preview' = preview_export(papers, terms, rels)
    /\ UNCHANGED <<papers, terms, rels, reachable, nodes, edges, indexes, pc,
                   run, hist, fcall, lookup,
                   cmd, start,
                   status, master_index>>

\* a category of terms with the given ids
Named(cat, ids) ==
    [cat |-> cat,
     terms |-> [i \in DOMAIN ids |-> [id |-> ids[i], data |-> [definition |-> "d"]]]]

\* 5 mechanism terms and 3 protein terms
ExampleTerms ==
    [categories |->
        <<Named("mechanisms", <<"m1", "m2", "m3", "m4", "m5">>),
          Named("proteins", <<"q1", "q2", "q3">>)>>]

\* 10 papers
TenPapers ==
    LET ids == <<"e01", "e02", "e03", "e04", "e05", "e06", "e07", "e08", "e09",
                 "e10">>
    IN  [i \in DOMAIN ids |-> [paper_id |-> ids[i], title |-> "t"]]

\* three categories that resolve to the node type Term, one of them unmapped
SharedTypeTerms ==
    [categories |->
        <<Named("photochemistry", <<"h1">>),
          Named("novel_category", <<"n1", "n2">>),
          Named("spin_states", <<"s1">>)>>]

\* relationships among the example's terms, one with an unmapped predicate
SampleRels ==
    [relationships |->
        <<[subject |-> "m1", predicate |-> "binds", object |-> "q1"],
          [subject |-> "m2", predicate |-> "is_a", object |-> "m1",
           source |-> "s1"]>>]

\* two larger corpora
Samples ==
    \/ papers = TenPapers /\ terms = ExampleTerms /\ rels = SampleRels
    \/ papers = <<>> /\ terms = SharedTypeTerms /\ rels = [relationships |-> <<>>]

\* the three files hold at most n records in all
Loaded(n) ==
    /\ papers \in SeqsUpTo(PaperRecs, n)
    /\ \E ts \in TermLists(TermItems, n) :
         \E rs \in SeqsUpTo(RelRecs, n) :
            /\ Len(papers) + Len(ts) + Len(rs) <= n
            /\ terms = TermDoc(ts)
            /\ rels = [relationships |-> rs]

Init ==
    /\ Loaded(MaxItems) \/ Samples
    /\ reachable \in BOOLEAN
    /\ nodes \in InitGraphs
    /\ edges = <<>>
    /\ indexes = {}
    /\ pc = "idle"
    /\ run = NoRun
    /\ hist = <<>>
    /\ preview = NoPreview
    /\ fcall = NoCall
    /\ lookup = NoLookup
    /\ cmd = NoCmd
    /\ start = Started(nodes, edges)
    /\ status = NoStatusFile
    /\ master_index = EmptyDict

Next ==
    \/ export_full
    \/ CreateIndexes
    \/ CreatePaperNodes
    \/ CreateTermNodes
    \/ CreateRelationships
    \/ Report
    \/ preview_full

Spec == Init /\ [][Next]_vars

(***************************************************************************)
(* Runs under faults: a backend that refuses an index, and a run stopped   *)
(* from outside (KeyboardInterrupt is no Exception, so no except clause of *)
(* the write loops catches it) and started again                           *)
(***************************************************************************)
MaxFaultItems == 2

\* the first k terms of the document, in the order create_term_nodes visits
TermsBefore(cats, c) ==
    LET RECURSIVE B(_)
        B(d) == IF d = 0 THEN 0 ELSE Len(cats[d].terms) + B(d - 1)
    IN  B(c - 1)

TermTotal(doc) == TermsBefore(Categories(doc), Len(Categories(doc)) + 1)

TermsUpto(doc, k) ==
    LET cats == Categories(doc)
    IN  [categories |->
            [c \in DOMAIN cats |->
                LET left == k - TermsBefore(cats, c)
                    n    == IF left < 0 THEN 0
                            ELSE IF left > Len(cats[c].terms)
                                 THEN Len(cats[c].terms) ELSE left
                IN  [cats[c] EXCEPT !.terms = SubSeq(@, 1, n)]]]

\* the write loop of the phase at pc, stopped after its first k items
LoopUpto(k) ==
    CASE pc = "papers" -> create_paper_nodes(Graph, SubSeq(papers, 1, k))
      [] pc = "terms"  -> create_term_nodes(Graph, TermsUpto(terms, k))
      [] pc = "rels"   ->
            create_relationships(Graph,
                [relationships |-> SubSeq(Relationships(rels), 1, k)])
      [] OTHER         -> NewLoop(Graph)

\* the number of items of the phase at pc
PhaseItems ==
    CASE pc = "indexes" -> Len(NODE_INDEXES)
      [] pc = "papers"  -> Len(papers)
      [] pc = "terms"   -> TermTotal(terms)
      [] pc = "rels"    -> Len(Relationships(rels))
      [] OTHER          -> 0

\* where create_indexes is stopped: before its first index, after it, and
\* before its last
IndexCuts == {0, 1, Len(NODE_INDEXES) - 1}

\* the numbers of items after which the phase at pc is stopped
Cuts == IF pc = "indexes" THEN IndexCuts ELSE 0..(PhaseItems - 1)

\* KeyboardInterrupt after the first k items of the phase the first run is
\* in: it leaves the with block, which releases the session, and
\* export_to_neo4j
Interrupt ==
    /\ pc \in {"indexes", "papers", "terms", "rels"}
    /\ hist = <<>> /\ start.cut = <<>>
    /\ \E k \in Cuts :
         LET ix == create_indexes_upto(indexes, IF pc = "indexes" THEN k ELSE 0)
             st == LoopUpto(k)
         IN  /\ st.raised = None
             /\ indexes' = ix.ixs
             /\ nodes' = st.g.nodes
             /\ edges' = st.g.edges
             /\ Ended([ExitWith(Issued(Logged(st), Len(ix.tried))) EXCEPT
                          !.ix_tried = @ \o ix.tried,
                          !.ix_failed = @ \o ix.failed,
                          !.raised = "KeyboardInterrupt"],
                      "interrupted", st.g.nodes, st.g.edges)
             /\ start' = [start EXCEPT !.cut = <<pc, k>>]
    /\ UNCHANGED <<papers, terms, rels, reachable, preview, fcall, lookup,
                   cmd,
                   status, master_index>>

\* the nodes an earlier export of two terms left in the backend
ExportedNodes ==
    create_term_nodes([nodes |-> <<>>, edges |-> <<>>],
        TermDoc(<< [cat |-> "mechanisms", id |-> "a",
                    data |-> [definition |-> "d0"]],
                   [cat |-> "proteins", id |-> "b",
                    data |-> [definition |-> "d0", variants |-> "v0"]] >>)).g.nodes

\* the schemas a backend may hold before the first run
InitSchemas ==
    {{},
     {ConstraintOn(<<"Paper", "paper_id">>)},
     {ConstraintOn(<<"Term", "category">>), IndexOn(<<"Protein", "name">>)}}

InitFaults ==
    /\ Loaded(MaxFaultItems)
    /\ reachable = TRUE
    /\ nodes \in InitGraphs \cup {ExportedNodes}
    /\ edges = <<>>
    /\ indexes \in InitSchemas
    /\ pc = "idle"
    /\ run = NoRun
    /\ hist = <<>>
    /\ preview = NoPreview
    /\ fcall = NoCall
    /\ lookup = NoLookup
    /\ cmd = NoCmd
    /\ start = Started(nodes, edges)
    /\ status = NoStatusFile
    /\ master_index = EmptyDict

NextFaults ==
    \/ export_full
    \/ CreateIndexes
    \/ CreatePaperNodes
    \/ CreateTermNodes
    \/ CreateRelationships
    \/ Report
    \/ Interrupt

SpecFaults == InitFaults /\ [][NextFaults]_vars


(***************************************************************************)
(* Properties of the synchronization run                                   *)
(***************************************************************************)

\* the items of one kind the run tried, as their positions in the corpus
TriedAt(kind) == {run.tried[j].at : j \in {k \in DOMAIN run.tried : run.tried[k].kind = kind}}
WrittenAt(kind) == {run.writes[j].at : j \in {k \in DOMAIN run.writes : run.writes[k].kind = kind}}
FailedAt(kind) == {run.failed[j].at : j \in {k \in DOMAIN run.failed : run.failed[k].kind = kind}}

\* how many items of one kind and type the run tried
TriedCount(kind, type) ==
    Cardinality({j \in DOMAIN run.tried :
                    run.tried[j].kind = kind /\ run.tried[j].type = type})

\* create_relationships has run in the current / last run
RelPhaseRan ==
    \/ pc = "report"
    \/ pc = "idle" /\ run.outcome = "complete"
    \/ pc = "idle" /\ run.outcome = "error" /\ run.term_count >= 0

\* C1: idempotence of synchronization.  Once one run has ended, every later
\* run on the same corpus leaves the number of nodes and the number of
\* relationships where that run left them, at each of its phases and at its
\* end: it creates no node and no relationship.
C1_Idempotent ==
    /\ Len(hist) >= 1 => <<Len(nodes), Len(edges)>> = hist[Len(hist)]
    /\ \A i \in 2..Len(hist) : hist[i] = hist[i - 1]

\* a second run has completed on a corpus that made papers, terms and a
\* relationship
C1_Witness ==
    /\ Len(hist) = 2
    /\ run.outcome = "complete"
    /\ run.paper_count >= 1 /\ run.term_count >= 1 /\ Len(run.resolved) >= 1
    /\ Len(edges) >= 1

\* C2: a relationship record with an endpoint that matches no node is a
\* per-item failure and is not counted: the count create_relationships
\* returns is the number of records whose two endpoints were found.
C2_CountsResolvedOnly ==
    run.outcome = "complete" =>
        /\ run.rel_count = Len(run.resolved)
        /\ \A at \in WrittenAt("rel") :
              at \notin {run.resolved[j].at : j \in DOMAIN run.resolved}
                 => at \in FailedAt("rel")

\* C3: every per-item failure is caught inside the write loops: no
\* exception leaves create_paper_nodes, create_term_nodes or
\* create_relationships, and a run that connected tries every item.
C3_FailuresContained ==
    /\ run.raised \in {None, "ServiceUnavailable"}
    /\ run.paper_count >= 0 => {<<i>> : i \in DOMAIN papers} \subseteq TriedAt("node")
    /\ RelPhaseRan => TriedAt("rel") = {<<i>> : i \in DOMAIN Relationships(rels)}

\* the relationship record at i is well-formed and one of its endpoints
\* matches no node (the relationship phase leaves the nodes as they are)
Dangling(i) ==
    LET rel == Relationships(rels)[i]
    IN  /\ {"subject", "predicate", "object"} \subseteq DOMAIN rel
        /\ \/ MatchByName(Graph, rel["subject"]) = {}
           \/ MatchByName(Graph, rel["object"]) = {}

\* the positions of the relationship records the run tried, in order
TriedRels == SelectSeq(run.tried, LAMBDA it : it.kind = "rel")

\* C4: when the relationship loop reaches a record whose subject or object
\* node does not exist, it issues the write for it, and the run goes on: the
\* loop tries every record, in input order, nothing leaves
\* create_relationships, and the run reaches its report.
C4_DanglingAttempted ==
    RelPhaseRan =>
        \A i \in DOMAIN Relationships(rels) :
            (Dangling(i) /\ <<i>> \in TriedAt("rel")) =>
                /\ <<i>> \in WrittenAt("rel")
                /\ Len(TriedRels) = Len(Relationships(rels))
                /\ \A j \in DOMAIN TriedRels : TriedRels[j].at = <<j>>
                /\ run.raised = None
                /\ pc = "report" \/ run.outcome = "complete"

\* a completed run whose first relationship record had a missing endpoint
\* and was followed by another record
C4_Witness ==
    /\ run.outcome = "complete"
    /\ Len(Relationships(rels)) >= 2
    /\ Dangling(1)
    /\ <<1>> \in WrittenAt("rel")
    /\ <<2>> \in TriedAt("rel")

\* C5: the totals preview_export prints equal what a run on the same corpus
\* attempts, per node type and per relationship type, and with no failed item
\* they equal the counts the run reports.
C5_PreviewEqualsAttempts ==
    (/\ pc = "idle" /\ reachable /\ run.outcome \in {"complete", "error"}
     /\ "nodes" \in preview.printed) =>
        /\ \A t \in NODE_TYPES :
              Get(preview.node_counts, t, 0) = TriedCount("node", t)
        /\ "rels" \in preview.printed =>
              \A t \in RELATIONSHIP_TYPES :
                 Get(preview.rel_counts, t, 0) = TriedCount("rel", t)
        /\ (run.outcome = "complete" /\ run.failed = <<>>) =>
              /\ run.paper_count + run.term_count = SumOver(preview.node_counts)
              /\ run.rel_count = SumOver(preview.rel_counts)


(***************************************************************************)
(* neo4j_exporter.filter_subgraph.  An optional list argument is           *)
(* [given |-> FALSE] for None and [given |-> TRUE, list |-> <<...>>] for a *)
(* list.                                                                   *)
(***************************************************************************)
Absent == [given |-> FALSE]
Given(list) == [given |-> TRUE, list |-> list]

\* the test of "if paper_ids:" and of "if categories:", which Python takes
\* as false for None and for the empty list
Selected(arg) == arg.given /\ arg.list # <<>>

\* [p for p in all_papers if p['paper_id'] in paper_ids]
FilterPapers(all_papers, paper_ids) ==
    IF ~Selected(paper_ids) THEN [raised |-> None, papers |-> all_papers]
    ELSE IF \E i \in DOMAIN all_papers : ~HasKey(all_papers[i], "paper_id")
    THEN [raised |-> "KeyError", papers |-> <<>>]
    ELSE [raised |-> None,
          papers |-> SelectSeq(all_papers,
                        LAMBDA p : p["paper_id"] \in Range(paper_ids.list))]

\* the category entry named cat, of a dict that has one
Entry(cats, cat) == cats[CHOOSE c \in DOMAIN cats : cats[c].cat = cat]

\* "for cat in categories: if cat in all_terms.get('categories', {}):
\*      filtered_terms['categories'][cat] = all_terms['categories'][cat]"
RECURSIVE PickCategories(_, _, _)
PickCategories(cats, list, i) ==
    IF i = 0 THEN <<>>
    ELSE LET done == PickCategories(cats, list, i - 1)
         IN  IF /\ \E c \in DOMAIN cats : cats[c].cat = list[i]
                /\ \A d \in DOMAIN done : done[d].cat # list[i]
             THEN Append(done, Entry(cats, list[i]))
             ELSE done

FilterTerms(all_terms, categories) ==
    IF Selected(categories)
    THEN [categories |->
            PickCategories(Categories(all_terms), categories.list,
                           Len(categories.list))]
    ELSE all_terms

\* term_ids: the keys of every category of the filtered terms
TermIds(doc) ==
    LET cats == Categories(doc)
    IN  UNION {{cats[c].terms[t].id : t \in DOMAIN cats[c].terms} :
                  c \in DOMAIN cats}

\* a condition that keeps a relationship only when both ends are selected
KeepBothEnds(rel, term_ids) ==
    rel["subject"] \in term_ids /\ HasKey(rel, "object")
        /\ rel["object"] \in term_ids

\* rel["subject"] in term_ids or rel["object"] in term_ids
KeepRel(rel, term_ids) ==
    rel["subject"] \in term_ids \/ rel["object"] \in term_ids

\* evaluating that condition raises KeyError
KeepRelRaises(rel, term_ids) ==
    \/ ~HasKey(rel, "subject")
    \/ rel["subject"] \notin term_ids /\ ~HasKey(rel, "object")

FilterRels(all_rels, term_ids) ==
    LET rs   == Relationships(all_rels)
        pass == DOMAIN all_rels \cap {"hierarchies", "process_flows"}
    IN  IF \E i \in DOMAIN rs : KeepRelRaises(rs[i], term_ids)
        THEN [raised |-> "KeyError", rels |-> EmptyDict]
        ELSE [raised |-> None,
              rels |-> [k \in {"relationships"} \cup pass |->
                          IF k = "relationships"
                          THEN SelectSeq(rs, LAMBDA r : KeepRel(r, term_ids))
                          ELSE all_rels[k]]]

\* a filter that applies the organisms criterion: with an organisms list it
\* keeps the relationships whose subject or object is a listed organism
filter_by_organisms(all_papers, all_terms, all_rels, paper_ids, categories, organisms) ==
    LET fp == FilterPapers(all_papers, paper_ids)
        ft == FilterTerms(all_terms, categories)
        fr == FilterRels(all_rels,
                  IF Selected(organisms)
                  THEN TermIds(ft) \cap Range(organisms.list) ELSE TermIds(ft))
    IN  IF fp.raised # None \/ fr.raised # None
        THEN [raised |-> "KeyError", papers |-> <<>>, terms |-> EmptyDict,
              rels |-> EmptyDict]
        ELSE [raised |-> None, papers |-> fp.papers, terms |-> ft,
              rels |-> fr.rels]

\* filter_subgraph(paper_ids, categories, organisms) on the loaded corpus
filter_subgraph(all_papers, all_terms, all_rels, paper_ids, categories, organisms) ==
    LET fp == FilterPapers(all_papers, paper_ids)
        ft == FilterTerms(all_terms, categories)
        fr == FilterRels(all_rels, TermIds(ft))
    IN  IF fp.raised # None
        THEN [raised |-> fp.raised, papers |-> <<>>, terms |-> EmptyDict,
              rels |-> EmptyDict]
        ELSE IF fr.raised # None
        THEN [raised |-> fr.raised, papers |-> <<>>, terms |-> EmptyDict,
              rels |-> EmptyDict]
        ELSE [raised |-> None, papers |-> fp.papers, terms |-> ft,
              rels |-> fr.rels]

(***************************************************************************)
(* The corpora and arguments filter_subgraph is called on                  *)
(***************************************************************************)
FilterPaperRecs ==
    {[paper_id |-> "p1", title |-> "t1"], [paper_id |-> "p2", title |-> "t2"],
     [title |-> "t1"]}

FilterTermItems ==
    {[cat |-> "mechanisms", id |-> "a", data |-> [definition |-> "d1"]],
     [cat |-> "mechanisms", id |-> "c", data |-> [definition |-> "d3"]],
     [cat |-> "proteins", id |-> "b", data |-> [definition |-> "d2"]]}

\* between a mechanism and a protein, between two names that are no terms,
\* without object, without subject
FilterRelRecs ==
    {[subject |-> "a", predicate |-> "exhibits", object |-> "b"],
     [subject |-> "x", predicate |-> "is_a", object |-> "y"],
     [subject |-> "a", predicate |-> "is_a"],
     [predicate |-> "is_a", object |-> "b"]}

\* relationships.json: missing, with the relationships alone, and with the
\* pass-through substructures and one more key
RelDocs(rs) ==
    IF rs = <<>>
    THEN {EmptyDict, [relationships |-> rs]}
    ELSE {[relationships |-> rs],
          [relationships |-> rs, hierarchies |-> "h1", process_flows |-> "f1",
           metadata |-> "m1"]}

\* the corpus of 5 mechanism terms, 3 protein terms (ExampleTerms) and 3
\* papers, with two relationships from a mechanism to a protein and one
\* between other names
ExamplePapers ==
    <<[paper_id |-> "p1"], [paper_id |-> "p2"], [paper_id |-> "p3"]>>

ExampleRels ==
    [relationships |->
        <<[subject |-> "m1", predicate |-> "requires", object |-> "q1"],
          [subject |-> "x", predicate |-> "is_a", object |-> "y"],
          [subject |-> "q2", predicate |-> "exhibits", object |-> "m2"]>>]

PaperIdArgs ==
    {Absent, Given(<<>>), Given(<<"p1">>), Given(<<"p2">>),
     Given(<<"p2", "p1">>), Given(<<"p1", "p3">>)}

CategoryArgs ==
    {Absent, Given(<<>>), Given(<<"mechanisms">>), Given(<<"proteins">>),
     Given(<<"proteins", "mechanisms">>), Given(<<"mechanisms", "mechanisms">>),
     Given(<<"", "organisms">>)}

OrganismArgs == {Absent, Given(<<"o1">>)}

InitFilter ==
    /\ \/ /\ papers \in SeqsUpTo(FilterPaperRecs, MaxItems)
          /\ \E ts \in TermLists(FilterTermItems, MaxItems) :
               \E rs \in SeqsUpTo(FilterRelRecs, MaxItems) :
                  /\ Len(papers) + Len(ts) + Len(rs) <= MaxItems
                  /\ terms \in {TermDoc(ts)} \cup
                               (IF ts = <<>> THEN {EmptyDict} ELSE {})
                  /\ rels \in RelDocs(rs)
       \/ papers = ExamplePapers /\ terms = ExampleTerms /\ rels = ExampleRels
    /\ reachable = TRUE
    /\ nodes = <<>>
    /\ edges = <<>>
    /\ indexes = {}
    /\ pc = "idle"
    /\ run = NoRun
    /\ hist = <<>>
    /\ preview = NoPreview
    /\ fcall = NoCall
    /\ lookup = NoLookup
    /\ cmd = NoCmd
    /\ start = Started(nodes, edges)
    /\ status = NoStatusFile
    /\ master_index = EmptyDict

\* the call of filter_subgraph an export_subgraph or preview_subgraph makes
FilterSubgraph ==
    \E paper_ids \in PaperIdArgs, categories \in CategoryArgs,
       organisms \in OrganismArgs :
        /\ ~fcall.called
        /\ fcall' = [called |-> TRUE, paper_ids |-> paper_ids,
                     categories |-> categories, organisms |-> organisms,
                     result |-> filter_subgraph(papers, terms, rels, paper_ids,
                                                categories, organisms)]
        /\ UNCHANGED <<papers, terms, rels, reachable, nodes, edges, indexes,
                       pc, run, hist, preview, lookup,
                   cmd, start,
                   status, master_index>>

NextFilter == FilterSubgraph

SpecFilter == InitFilter /\ [][NextFilter]_vars


(***************************************************************************)
(* Properties of filter_subgraph                                           *)
(***************************************************************************)

\* a list was passed for the argument
IsGiven(arg) == arg.given

\* filter_subgraph was called and returned
Returned == fcall.called /\ fcall.result.raised = None

\* the names of the categories of a terms dict
CategoryNames(doc) == {Categories(doc)[c].cat : c \in DOMAIN Categories(doc)}

\* the terms of the category named cat in a terms dict that has it
CategoryTerms(doc, cat) == Entry(Categories(doc), cat).terms

\* the relationship record has this endpoint field and it names one of ids
EndIn(rel, field, ids) == HasKey(rel, field) /\ rel[field] \in ids

\* C6: relationship filtering is a 1-hop expansion.  A source relationship
\* is kept if and only if its subject or its object is a term of a kept
\* category, and the kept ones stay in source order; with 5 mechanism and 3
\* protein terms and categories = ["mechanisms"], 5 terms are kept and so are
\* both relationships that join a mechanism and a protein.
C6_OneHopExpansion ==
    Returned =>
        LET ids  == TermIds(fcall.result.terms)
            kept == Relationships(fcall.result.rels)
        IN  /\ kept = SelectSeq(Relationships(rels),
                        LAMBDA r : EndIn(r, "subject", ids) \/ EndIn(r, "object", ids))
            /\ (/\ terms = ExampleTerms /\ rels = ExampleRels
                /\ fcall.categories = Given(<<"mechanisms">>)) =>
                  /\ Cardinality(ids) = 5
                  /\ kept = <<ExampleRels.relationships[1],
                              ExampleRels.relationships[3]>>

\* a call that named categories kept a relationship whose other end is a term
\* of an excluded category, and dropped another relationship
C6_Witness ==
    /\ Returned
    /\ Selected(fcall.categories)
    /\ LET ids  == TermIds(fcall.result.terms)
           kept == Relationships(fcall.result.rels)
       IN  /\ \E i \in DOMAIN kept :
                 /\ EndIn(kept[i], "subject", ids)
                 /\ EndIn(kept[i], "object", TermIds(terms) \ ids)
           /\ Len(kept) < Len(Relationships(rels))

\* C7: paper filtering.  For every paper_ids list that is given, the empty
\* list included, the papers returned are exactly those whose paper_id is in
\* the list, in corpus order; all papers are kept only when no list is given.
C7_PaperAllowList ==
    Returned =>
        IF IsGiven(fcall.paper_ids)
        THEN fcall.result.papers =
                SelectSeq(papers, LAMBDA p : EndIn(p, "paper_id",
                                                   Range(fcall.paper_ids.list)))
        ELSE fcall.result.papers = papers

\* C8: with no criteria given filter_subgraph is the identity: the papers,
\* the terms and every source relationship are returned.
C8_NoCriteriaIdentity ==
    (/\ Returned
     /\ ~IsGiven(fcall.paper_ids) /\ ~IsGiven(fcall.categories)
     /\ ~IsGiven(fcall.organisms)) =>
        /\ fcall.result.papers = papers
        /\ fcall.result.terms = terms
        /\ Relationships(fcall.result.rels) = Relationships(rels)

\* C9: category filtering keeps whole categories.  When a categories list is
\* given the filtered terms hold exactly the source categories the list
\* names, each with all its terms unchanged; when none is given they are the
\* source terms.
C9_WholeCategories ==
    Returned =>
        IF IsGiven(fcall.categories)
        THEN /\ CategoryNames(fcall.result.terms) =
                    CategoryNames(terms) \cap Range(fcall.categories.list)
             /\ \A cat \in CategoryNames(fcall.result.terms) :
                    CategoryTerms(fcall.result.terms, cat) = CategoryTerms(terms, cat)
        ELSE fcall.result.terms = terms

(***************************************************************************)
(* The schema lookups                                                      *)
(***************************************************************************)
CategoryInputs ==
    DOMAIN ONTOLOGY_CATEGORY_MAPPING \cup
        {"", "novel_category", "Mechanism", "mechanism", "is_a"}

PredicateInputs ==
    DOMAIN PREDICATE_MAPPING \cup {"", "binds", "IS_A", "is a", "proteins"}

InitSchema ==
    /\ papers = <<>>
    /\ terms = EmptyDict
    /\ rels = EmptyDict
    /\ reachable = TRUE
    /\ nodes = <<>>
    /\ edges = <<>>
    /\ indexes = {}
    /\ pc = "idle"
    /\ run = NoRun
    /\ hist = <<>>
    /\ preview = NoPreview
    /\ fcall = NoCall
    /\ lookup = [category |-> Unbound, node_type |-> Unbound,
                 predicate |-> Unbound, rel_type |-> Unbound]
    /\ cmd = NoCmd
    /\ start = Started(nodes, edges)
    /\ status = NoStatusFile
    /\ master_index = EmptyDict

LookupNodeType ==
    \E category \in CategoryInputs :
        /\ lookup' = [lookup EXCEPT
                        !.category = category,
                        !.node_type = get_node_type_for_category(category)]
        /\ UNCHANGED <<papers, terms, rels, reachable, nodes, edges, indexes,
                       pc, run, hist, preview, fcall,
                   cmd, start,
                   status, master_index>>

LookupRelType ==
    \E predicate \in PredicateInputs :
        /\ lookup' = [lookup EXCEPT
                        !.predicate = predicate,
                        !.rel_type = get_relationship_type_for_predicate(predicate)]
        /\ UNCHANGED <<papers, terms, rels, reachable, nodes, edges, indexes,
                       pc, run, hist, preview, fcall,
                   cmd, start,
                   status, master_index>>

NextSchema == LookupNodeType \/ LookupRelType

SpecSchema == InitSchema /\ [][NextSchema]_vars

\* C10: the two lookups are total on strings.  Every input, the empty string
\* and unknown values included, returns a declared type: a mapped input its
\* table entry, every other input the default ("Term", "RELATED_TO").
C10_LookupsTotal ==
    /\ lookup.category # Unbound =>
          /\ lookup.node_type \in NODE_TYPES
          /\ lookup.node_type =
                IF lookup.category \in DOMAIN ONTOLOGY_CATEGORY_MAPPING
                THEN ONTOLOGY_CATEGORY_MAPPING[lookup.category] ELSE "Term"
    /\ lookup.predicate # Unbound =>
          /\ lookup.rel_type \in RELATIONSHIP_TYPES
          /\ lookup.rel_type =
                IF lookup.predicate \in DOMAIN PREDICATE_MAPPING
                THEN PREDICATE_MAPPING[lookup.predicate] ELSE "RELATED_TO"

\* the empty string and an unknown predicate were looked up and got the
\* defaults
C10_Witness ==
    /\ lookup.category = "" /\ lookup.node_type = "Term"
    /\ lookup.predicate = "binds" /\ lookup.rel_type = "RELATED_TO"

(***************************************************************************)
(* Properties of runs under faults                                         *)
(***************************************************************************)

\* the graph one uninterrupted export_to_neo4j of the corpus leaves, from g
Uninterrupted(g) ==
    LET ps == create_paper_nodes(g, papers)
        ts == create_term_nodes(ps.g, terms)
        rs == create_relationships(ts.g, rels)
    IN  IF ps.raised # None THEN ps.g
        ELSE IF ts.raised # None THEN ts.g
        ELSE rs.g

\* C16: resume convergence.  A run stopped after any prefix of its writes
\* and a complete run after it on the same corpus leave the graph (nodes,
\* their properties, relationships and theirs) that one uninterrupted run
\* leaves from the same initial graph.
C16_ResumeConverges ==
    (start.cut # <<>> /\ pc = "idle" /\ Len(hist) >= 2) =>
        Graph = Uninterrupted(start.g)

\* a run was stopped in its relationship phase after its first record had
\* made a relationship, and the run after it has completed
C16_Witness ==
    /\ start.cut # <<>> /\ start.cut[1] = "rels" /\ start.cut[2] >= 1
    /\ pc = "idle" /\ Len(hist) >= 2 /\ run.outcome = "complete"
    /\ ~Dangling(1)
    /\ Len(edges) >= 1 /\ Len(run.resolved) >= 1

\* the property the MERGE of a node upsert matches on: "MERGE (p:Paper
\* {paper_id: $paper_id})" and "MERGE (n:{node_type} {name: $name})"
UpsertKey(label) == IF label = "Paper" THEN "paper_id" ELSE "name"

\* create_indexes has run in the current / last run and the backend refused
\* none of its indexes
IndexesMade ==
    /\ run.outcome \in {"running", "complete", "error"}
    /\ pc # "indexes" /\ run.acquired >= 1
    /\ run.ix_failed = <<>>

\* C19: index assurance covers the natural key of every node type:
\* create_indexes issues a create-index on the property the upsert matches
\* on, paper_id for Paper and name for each of the seven other types.
C19_IndexOnEveryKey ==
    IndexesMade =>
        \A label \in NODE_TYPES :
            /\ <<label, UpsertKey(label)>> \in Range(run.ix_tried)
            /\ IndexOn(<<label, UpsertKey(label)>>) \in indexes

\* the items create_paper_nodes and create_term_nodes are to try
AllNodeItems ==
    {<<i>> : i \in DOMAIN papers} \cup
    UNION {{<<c, i>> : i \in DOMAIN Categories(terms)[c].terms} :
                c \in DOMAIN Categories(terms)}

\* C20: index failures are non-blocking.  When the backend refuses an index,
\* create_indexes still tries every other index, in order, and the run goes
\* on to the paper, term and relationship upserts.
C20_IndexFailuresPass ==
    (run.ix_failed # <<>> /\ run.outcome # "interrupted") =>
        /\ run.ix_tried = NODE_INDEXES
        /\ pc # "indexes"
        /\ (pc = "idle" /\ papers # <<>>) => <<1>> \in TriedAt("node")
        /\ (pc = "idle" /\ run.raised = None) =>
              /\ run.outcome = "complete"
              /\ TriedAt("node") = AllNodeItems
              /\ TriedAt("rel") = {<<i>> : i \in DOMAIN Relationships(rels)}

\* a run has completed its writes although the backend refused an index that
\* is not the last one
C20_Witness ==
    /\ run.outcome = "complete"
    /\ run.ix_failed # <<>>
    /\ run.ix_failed[1] # NODE_INDEXES[Len(NODE_INDEXES)]
    /\ Len(run.writes) >= 2
    /\ Len(nodes) > Len(start.g.nodes)

(***************************************************************************)
(* Properties of the connection, the session and the output schema         *)
(***************************************************************************)

\* C14: a connection failure is fatal and precedes all writes.  When
\* connect() fails in export_to_neo4j the exception reaches the caller and
\* the run has issued no index creation, no node upsert and no relationship
\* upsert: the backend is as it was.
C14_ConnectFailureFatal ==
    (~reachable /\ run.outcome # "none") =>
        /\ pc = "idle" /\ run.outcome = "error"
        /\ run.raised = "ServiceUnavailable"
        /\ run.ix_tried = <<>> /\ run.tried = <<>> /\ run.writes = <<>>
        /\ Graph = start.g /\ indexes = {}

\* a run on a corpus with papers has ended on the connection failure
C14_Witness ==
    /\ ~reachable /\ run.outcome = "error" /\ Len(hist) >= 1
    /\ papers # <<>> /\ Categories(terms) # <<>>

\* a run of export_to_neo4j has ended past its connect()
RunEnded ==
    /\ pc = "idle" /\ run.outcome \in {"complete", "error"}
    /\ run.raised # "ServiceUnavailable"

\* C15 as claimed: in every run exactly one session is acquired, every write
\* is issued inside it, and it is released exactly once on every exit path.
C15_ExactlyOneSession ==
    RunEnded => run.acquired = 1 /\ run.released = 1 /\ run.outside = 0

\* C15 as amended: a run that connects acquires one session for its writes,
\* issues every index, node and relationship write inside it and releases it
\* exactly once, at the end of the write phase or when an exception leaves
\* it; a run that completes then acquires and releases a second session, in
\* get_database_info, which only reads; a run whose connect() fails acquires
\* none.
C15_OneWriteSession ==
    /\ run.outside = 0
    /\ pc \in {"indexes", "papers", "terms", "rels", "report"} =>
          run.acquired = 1 /\ run.released = 0
    /\ (RunEnded /\ run.outcome = "error") =>
          run.acquired = 1 /\ run.released = 1
    /\ (RunEnded /\ run.outcome = "complete") =>
          run.acquired = 2 /\ run.released = 2
    /\ run.raised = "ServiceUnavailable" =>
          run.acquired = 0 /\ run.released = 0

\* a run that had issued writes was ended by an exception leaving the write
\* phase, and its session was released
C15_Witness ==
    /\ RunEnded /\ run.outcome = "error"
    /\ run.raised \in {"KeyError", "UnboundLocalError"}
    /\ Len(run.writes) >= 1 /\ run.ix_tried # <<>>
    /\ run.released = 1

\* the (category, position) pairs of the terms of the document
AllTerms ==
    UNION {{<<c, i>> : i \in DOMAIN Categories(terms)[c].terms} :
                c \in DOMAIN Categories(terms)}

\* C17: preview node counts.  preview_export reports Paper = the number of
\* papers and, for every node type, the number of terms in the categories
\* that resolve to it (an unmapped category under Term), and its total is
\* the number of papers plus the number of terms; 10 papers, 5 mechanism
\* terms and 3 protein terms give Paper 10, Mechanism 5, Protein 3, total 18.
C17_PreviewNodeCounts ==
    "nodes" \in preview.printed =>
        /\ DOMAIN preview.node_counts \subseteq NODE_TYPES
        /\ preview.node_counts["Paper"] = Len(papers)
        /\ \A t \in NODE_TYPES \ {"Paper"} :
              Get(preview.node_counts, t, 0) =
                 Cardinality({x \in AllTerms :
                    Get(ONTOLOGY_CATEGORY_MAPPING, Categories(terms)[x[1]].cat,
                        "Term") = t})
        /\ preview.node_total = Len(papers) + Cardinality(AllTerms)
        /\ (papers = TenPapers /\ terms = ExampleTerms) =>
              /\ preview.node_counts =
                    [t \in {"Paper", "Mechanism", "Protein"} |->
                        CASE t = "Paper" -> 10 [] t = "Mechanism" -> 5
                          [] t = "Protein" -> 3]
              /\ preview.node_total = 18

\* the preview of the corpus of 10 papers, 5 mechanisms and 3 proteins
C17_Witness ==
    /\ "nodes" \in preview.printed
    /\ Len(papers) = 10 /\ Cardinality(AllTerms) = 8
    /\ preview.node_total = 18

\* C18: closed output schema.  After any run from an empty backend every
\* node carries one of the 8 declared labels and every relationship one of
\* the 14 declared types, whatever categories and predicates the corpus
\* names.
C18_ClosedSchema ==
    /\ Cardinality(NODE_TYPES) = 8 /\ Cardinality(RELATIONSHIP_TYPES) = 14
    /\ Range(ONTOLOGY_CATEGORY_MAPPING) \subseteq NODE_TYPES
    /\ Range(PREDICATE_MAPPING) \subseteq RELATIONSHIP_TYPES
    /\ start.g.nodes = <<>> =>
          /\ \A i \in DOMAIN nodes : nodes[i].label \in NODE_TYPES
          /\ \A i \in DOMAIN edges : edges[i].type \in RELATIONSHIP_TYPES

\* a completed run from an empty backend that made a relationship for an
\* unmapped predicate
C18_Witness ==
    /\ start.g.nodes = <<>> /\ run.outcome = "complete"
    /\ \E i \in DOMAIN edges :
          /\ Get(edges[i].props, "predicate", None) = "binds"
          /\ edges[i].type = "RELATED_TO"

(***************************************************************************)
(* neo4j_exporter.main: one command line, its mode, the confirmation gate  *)
(* and the exit code.  cmd.exit is -1 until the process has exited.        *)
(***************************************************************************)
MaxCmdItems == 1

KeyboardInterrupt == "<KeyboardInterrupt>"
EOFError == "<EOFError>"

\* what input("Continue? (yes/no): ") returns or raises
Responses == {"yes", "YES", "Yes", "no", "y", "", KeyboardInterrupt, EOFError}

\* str.lower() on the answers above
Lower(response) ==
    IF response \in {"YES", "Yes"} THEN "yes" ELSE response

\* a gate that takes every answer but "no" as consent
ConfirmedUnlessNo(confirm, response) == confirm \/ Lower(response) # "no"

\* "if not args.confirm: ... if response.lower() != 'yes': sys.exit(0)"
Confirmed(confirm, response) == confirm \/ Lower(response) = "yes"

\* "args.paper_ids.split(',') if args.paper_ids else None", on the
\* comma-separated fields of the option
ParseList(fields) == IF fields = <<>> THEN Absent ELSE Given(fields)

\* a clear_database that does not look at confirm
clear_database_always(g, ok, confirm) ==
    IF connect(ok) # None
    THEN [g |-> g, returned |-> "None", raised |-> connect(ok),
          connected |-> FALSE]
    ELSE [g |-> [nodes |-> <<>>, edges |-> <<>>], returned |-> "True",
          raised |-> None, connected |-> TRUE]

\* Neo4jConnection.clear_database(confirm): MATCH (n) DETACH DELETE n
clear_database(g, ok, confirm) ==
    IF ~confirm
    THEN [g |-> g, returned |-> "False", raised |-> None, connected |-> FALSE]
    ELSE IF connect(ok) # None
    THEN [g |-> g, returned |-> "None", raised |-> connect(ok),
          connected |-> FALSE]
    ELSE [g |-> [nodes |-> <<>>, edges |-> <<>>], returned |-> "True",
          raised |-> None, connected |-> TRUE]

\* Neo4jConnection.test_connection(): False when connect() raises, True when
\* RETURN 1 comes back
test_connection(ok) == IF connect(ok) # None THEN "False" ELSE "True"

\* the six mode flags, in the order of the if / elif chain of main()
ModeFlags ==
    <<"test-connection", "preview-full", "export-full", "preview-subgraph",
      "export-subgraph", "clear-graph">>

\* args = parser.parse_args(): the mode flags given (none of the six
\* excludes another), no branch of the chain entered yet
Parsed(flags) == [mode |-> "none", flags |-> flags, ran |-> {}]

\* a chain of independent "if" statements: the branch of every flag given
EveryBranch(flags) == IF flags = {} THEN {"help"} ELSE flags

\* the branches of "if args.test_connection: ... elif args.preview_full: ...
\* else: parser.print_help()" that are entered: that of the first flag given
Branches(flags) ==
    IF flags = {} THEN {"help"}
    ELSE {ModeFlags[CHOOSE i \in DOMAIN ModeFlags :
                        /\ ModeFlags[i] \in flags
                        /\ \A j \in 1..(i - 1) : ModeFlags[j] \notin flags]}

\* main() in the branch of mode: cmd.ran are the branches entered so far
Cmd(mode, confirm) ==
    [mode |-> mode, flags |-> cmd.flags, ran |-> cmd.ran \cup {mode},
     confirm |-> confirm, prompted |-> FALSE,
     response |-> Unbound, returned |-> "None", raised |-> None,
     connected |-> FALSE, exit |-> -1]

\* sys.exit(1) in the except clauses of main(), exit code 0 when main() returns
ExitCode(raised) == IF raised = None THEN 0 ELSE 1

\* main() reaches the branch of mode and has not entered it yet
Enter(mode) == pc = "idle" /\ mode \in Branches(cmd.flags) \ cmd.ran

\* --test-connection: the result of test_connection() is dropped
MainTestConnection ==
    /\ Enter("test-connection")
    /\ \E confirm \in BOOLEAN :
         cmd' = [Cmd("test-connection", confirm) EXCEPT
                    !.returned = test_connection(reachable),
                    !.connected = connect(reachable) = None,
                    !.exit = ExitCode(None)]
    /\ UNCHANGED <<papers, terms, rels, reachable, nodes, edges, indexes, pc,
                   run, hist, preview, fcall, lookup, start,
                   status, master_index>>

\* a preview that reads the backend's counts, in a session of its own
MainPreviewFullCounted ==
    /\ Enter("preview-full")
    /\ LET pv == preview_export(papers, terms, rels)
       IN  /\ preview' = pv
           /\ run' = get_database_info(run)
           /\ cmd' = [Cmd("preview-full", FALSE) EXCEPT
                        !.raised = pv.raised, !.exit = ExitCode(pv.raised),
                        !.connected = connect(reachable) = None]
    /\ UNCHANGED <<papers, terms, rels, reachable, nodes, edges, indexes, pc,
                   hist, fcall, lookup, start,
                   status, master_index>>

\* --preview-full
MainPreviewFull ==
    /\ Enter("preview-full")
    /\ LET pv == preview_export(papers, terms, rels)
       IN  /\ preview' = pv
           /\ cmd' = [Cmd("preview-full", FALSE) EXCEPT
                        !.raised = pv.raised, !.exit = ExitCode(pv.raised)]
    /\ UNCHANGED <<papers, terms, rels, reachable, nodes, edges, indexes, pc,
                   run, hist, fcall, lookup, start,
                   status, master_index>>

\* the options --paper-ids and --categories, as their fields
PaperIdFields == {<<>>, <<"p1">>}
CategoryFields == {<<>>, <<"mechanisms">>}

\* the call of filter_subgraph(paper_ids, categories) by the subgraph modes
Filtered(paper_ids, categories) ==
    [called |-> TRUE, paper_ids |-> paper_ids, categories |-> categories,
     organisms |-> Absent,
     result |-> filter_subgraph(papers, terms, rels, paper_ids, categories,
                                Absent)]

\* --preview-subgraph
MainPreviewSubgraph ==
    /\ Enter("preview-subgraph")
    /\ \E pf \in PaperIdFields, cf \in CategoryFields :
         LET f  == Filtered(ParseList(pf), ParseList(cf))
             pv == preview_export(f.result.papers, f.result.terms,
                                  f.result.rels)
         IN  /\ fcall' = f
             /\ IF f.result.raised # None
                THEN /\ cmd' = [Cmd("preview-subgraph", FALSE) EXCEPT
                                  !.raised = f.result.raised,
                                  !.exit = ExitCode(f.result.raised)]
                     /\ UNCHANGED preview
                ELSE /\ preview' = pv
                     /\ cmd' = [Cmd("preview-subgraph", FALSE) EXCEPT
                                  !.raised = pv.raised,
                                  !.exit = ExitCode(pv.raised)]
    /\ UNCHANGED <<papers, terms, rels, reachable, nodes, edges, indexes, pc,
                   run, hist, lookup, start,
                   status, master_index>>

\* the prompt of the export modes: the command as it stands after it, with
\* exit -1 when the export is to go on
Gate(mode, confirm, response) ==
    LET c == [Cmd(mode, confirm) EXCEPT
                !.prompted = ~confirm,
                !.response = IF confirm THEN Unbound ELSE response]
    IN  IF ~confirm /\ response \in {KeyboardInterrupt, EOFError}
        THEN [c EXCEPT !.raised = response, !.exit = ExitCode(response)]
        ELSE IF ~Confirmed(confirm, response)
        THEN [c EXCEPT !.exit = 0]
        ELSE c

\* --export-full, up to the first phase of export_to_neo4j
MainExportFull ==
    /\ Enter("export-full")
    /\ \E confirm \in BOOLEAN, response \in Responses :
         LET c == Gate("export-full", confirm, response)
         IN  /\ cmd' = c
             /\ IF c.exit = -1 THEN StartRun ELSE UNCHANGED <<run, pc, hist>>
    /\ UNCHANGED <<papers, terms, rels, reachable, nodes, edges, indexes,
                   preview, fcall, lookup, start,
                   status, master_index>>

\* --export-subgraph, up to the first phase of export_to_neo4j
MainExportSubgraph ==
    /\ Enter("export-subgraph")
    /\ \E confirm \in BOOLEAN, response \in Responses,
          pf \in PaperIdFields, cf \in CategoryFields :
         LET c == Gate("export-subgraph", confirm, response)
             f == Filtered(ParseList(pf), ParseList(cf))
         IN  IF c.exit # -1
             THEN cmd' = c /\ UNCHANGED <<run, pc, hist, fcall>>
             ELSE /\ fcall' = f
                  /\ IF f.result.raised # None
                     THEN /\ cmd' = [c EXCEPT !.raised = f.result.raised,
                                       !.exit = ExitCode(f.result.raised)]
                          /\ UNCHANGED <<run, pc, hist>>
                     ELSE cmd' = c /\ StartRun
    /\ UNCHANGED <<papers, terms, rels, reachable, nodes, edges, indexes,
                   preview, lookup, start,
                   status, master_index>>

\* main() after export_to_neo4j has returned or raised
MainExit ==
    /\ pc = "idle"
    /\ cmd.mode \in {"export-full", "export-subgraph"}
    /\ cmd.exit = -1
    /\ run.outcome \in {"complete", "error"}
    /\ cmd' = [cmd EXCEPT !.raised = run.raised,
                          !.exit = ExitCode(run.raised)]
    /\ UNCHANGED <<papers, terms, rels, reachable, nodes, edges, indexes, pc,
                   run, hist, preview, fcall, lookup, start,
                   status, master_index>>

\* --clear-graph
MainClearGraph ==
    /\ Enter("clear-graph")
    /\ \E confirm \in BOOLEAN :
         LET r == clear_database(Graph, reachable, confirm)
         IN  /\ nodes' = r.g.nodes
             /\ edges' = r.g.edges
             /\ cmd' = [Cmd("clear-graph", confirm) EXCEPT
                          !.returned = r.returned, !.raised = r.raised,
                          !.connected = r.connected,
                          !.exit = ExitCode(r.raised)]
    /\ UNCHANGED <<papers, terms, rels, reachable, indexes, pc, run, hist,
                   preview, fcall, lookup, start,
                   status, master_index>>

\* no mode given: parser.print_help()
MainHelp ==
    /\ Enter("help")
    /\ \E confirm \in BOOLEAN :
         cmd' = [Cmd("help", confirm) EXCEPT !.exit = ExitCode(None)]
    /\ UNCHANGED <<papers, terms, rels, reachable, nodes, edges, indexes, pc,
                   run, hist, preview, fcall, lookup, start,
                   status, master_index>>

\* the graph an earlier export of two terms and a relationship left
ExportedGraph ==
    create_relationships([nodes |-> ExportedNodes, edges |-> <<>>],
        [relationships |->
            <<[subject |-> "a", predicate |-> "is_a", object |-> "b",
               source |-> "s0"]>>]).g

InitMain ==
    /\ Loaded(MaxCmdItems) \/ Samples
    /\ reachable \in BOOLEAN
    /\ \/ nodes \in InitGraphs /\ edges = <<>>
       \/ nodes = ExportedGraph.nodes /\ edges = ExportedGraph.edges
    /\ indexes = {}
    /\ pc = "idle"
    /\ run = NoRun
    /\ hist = <<>>
    /\ preview = NoPreview
    /\ fcall = NoCall
    /\ lookup = NoLookup
    /\ cmd \in {Parsed(flags) : flags \in SUBSET Range(ModeFlags)}
    /\ start = Started(nodes, edges)
    /\ status = NoStatusFile
    /\ master_index = EmptyDict

NextMain ==
    \/ MainTestConnection
    \/ MainPreviewFull
    \/ MainPreviewSubgraph
    \/ MainExportFull
    \/ MainExportSubgraph
    \/ MainClearGraph
    \/ MainHelp
    \/ CreateIndexes
    \/ CreatePaperNodes
    \/ CreateTermNodes
    \/ CreateRelationships
    \/ Report
    \/ MainExit

SpecMain == InitMain /\ [][NextMain]_vars

(***************************************************************************)
(* Properties of the command                                               *)
(***************************************************************************)

\* C11: clear_database(confirm=False) issues no write, does not connect,
\* leaves the graph as it is and returns False; clear_database(confirm=True)
\* on a backend it can connect to leaves no node and no relationship and
\* returns True.
C11_ClearDatabase ==
    cmd.mode = "clear-graph" =>
        IF ~cmd.confirm
        THEN /\ Graph = start.g
             /\ cmd.returned = "False" /\ cmd.raised = None
             /\ ~cmd.connected
        ELSE reachable =>
                /\ nodes = <<>> /\ edges = <<>>
                /\ cmd.returned = "True" /\ cmd.raised = None

\* a confirmed clear of a backend that held nodes and a relationship
C11_Witness ==
    /\ cmd.mode = "clear-graph" /\ cmd.confirm /\ cmd.returned = "True"
    /\ Len(start.g.nodes) >= 2 /\ Len(start.g.edges) >= 1
    /\ nodes = <<>> /\ edges = <<>>

GatedModes == {"export-full", "export-subgraph", "clear-graph"}

\* --confirm was given, or the prompt was answered yes in any case
Consent ==
    \/ cmd.confirm
    \/ cmd.prompted /\ cmd.response \in {"yes", "YES", "Yes"}

\* the command is over and the backend is as it was: no index, no node or
\* relationship write, no delete
BackendUntouched ==
    /\ Graph = start.g /\ indexes = {}
    /\ run = NoRun /\ pc = "idle"
    /\ cmd.exit \in {0, 1}

\* C12 as claimed: in the three gated modes nothing is written without the
\* flag or a yes at the prompt, and each of the three modes offers the prompt
\* when the flag is absent.
C12_GateOffersPrompt ==
    cmd.mode \in GatedModes =>
        /\ ~Consent => BackendUntouched
        /\ cmd.prompted = ~cmd.confirm

\* C12 as amended: in the three gated modes nothing is written without the
\* flag or a yes at the prompt; export-full and export-subgraph offer the
\* prompt when the flag is absent and a declined prompt ends the command
\* with the backend unchanged; clear-graph offers no prompt: without the
\* flag clear_database does nothing and returns False.
C12_GateByFlagOrPrompt ==
    cmd.mode \in GatedModes =>
        /\ ~Consent => BackendUntouched
        /\ cmd.mode \in {"export-full", "export-subgraph"} =>
              cmd.prompted = ~cmd.confirm
        /\ cmd.mode = "clear-graph" =>
              /\ ~cmd.prompted
              /\ ~cmd.confirm => cmd.returned = "False"

\* export-full on a corpus with a record to write was declined at the prompt
C12_Witness ==
    /\ cmd.mode = "export-full" /\ cmd.prompted /\ cmd.response = "no"
    /\ cmd.exit = 0 /\ reachable
    /\ papers # <<>> /\ HasKey(papers[1], "paper_id")
    /\ BackendUntouched

\* C13: exit codes.  The process exits 0 when the mode succeeds and 1 on an
\* unhandled error, on an interrupted prompt and on a connection failure in
\* every mode, --test-connection with an unreachable backend included.
C13_ExitCodes ==
    (cmd.mode # "none" /\ cmd.exit # -1) =>
        cmd.exit = IF \/ cmd.raised # None
                      \/ cmd.mode = "test-connection" /\ cmd.returned = "False"
                   THEN 1 ELSE 0


(***************************************************************************)
(* Runs on a backend that already holds nodes of the corpus, with other    *)
(* property values and under other labels                                  *)
(***************************************************************************)
MaxUpsertItems == 2

\* paper records: complete, the same paper with the title alone, and one
\* with a field the backend cannot store
UpsertPaperRecs ==
    {[paper_id |-> "p1", doi |-> "10.1000/x", title |-> "t1", authors |-> "[A]",
      year |-> "2020", date_added |-> "2024-01-01"],
     [paper_id |-> "p1", title |-> "t2"],
     [paper_id |-> "p1", title |-> "t3", authors |-> Unsupported]}

\* terms as (category, term_id, term_data): with and without a definition,
\* with and without optional fields
UpsertTermItems ==
    {[cat |-> "proteins", id |-> "b",
      data |-> [definition |-> "d2", organisms |-> "o1"]],
     [cat |-> "proteins", id |-> "b", data |-> [source |-> "s1"]],
     [cat |-> "mechanisms", id |-> "a",
      data |-> [definition |-> "d1", synonyms |-> "y1"]]}

UpsertRelRecs ==
    {[subject |-> "a", predicate |-> "is_a", object |-> "b", source |-> "s1"],
     [subject |-> "x", predicate |-> "binds", object |-> "b"]}

\* nodes the backend holds before the first run
UpsertNodes ==
    << [label |-> "Protein", props |-> [name |-> "a", variants |-> "v0"]],
       [label |-> "Protein",
        props |-> [name |-> "b", definition |-> "d0", source |-> "s0",
                   variants |-> "v0", organisms |-> "o0"]],
       [label |-> "Paper",
        props |-> [paper_id |-> "p1", doi |-> "10.1000/old", title |-> "t0",
                   authors |-> "[B]", year |-> "1999",
                   date_added |-> "2023-01-01", journal |-> "j0"]] >>

UpsertGraphs ==
    {SelectSeq(UpsertNodes, LAMBDA n : n \in S) : S \in SUBSET Range(UpsertNodes)}

InitUpsert ==
    /\ papers \in SeqsUpTo(UpsertPaperRecs, MaxUpsertItems)
    /\ \E ts \in TermLists(UpsertTermItems, MaxUpsertItems) :
         \E rs \in SeqsUpTo(UpsertRelRecs, MaxUpsertItems) :
            /\ Len(papers) + Len(ts) + Len(rs) <= MaxUpsertItems
            /\ terms = TermDoc(ts)
            /\ rels = [relationships |-> rs]
    /\ reachable = TRUE
    /\ nodes \in UpsertGraphs
    /\ edges = <<>>
    /\ indexes = {}
    /\ pc = "idle"
    /\ run = NoRun
    /\ hist = <<>>
    /\ preview = NoPreview
    /\ fcall = NoCall
    /\ lookup = NoLookup
    /\ cmd = NoCmd
    /\ start = Started(nodes, edges)
    /\ status = NoStatusFile
    /\ master_index = EmptyDict

SpecUpsert == InitUpsert /\ [][Next]_vars

(***************************************************************************)
(* Properties of the upserts                                               *)
(***************************************************************************)

\* the name of the node at position i
NameOf(i) == Get(nodes[i].props, "name", None)

\* the relationships of one type from a node named as the record's subject
\* to a node named as its object
EdgesFor(rel, type) ==
    {e \in DOMAIN edges :
        /\ edges[e].type = type
        /\ NameOf(edges[e].src) = rel["subject"]
        /\ NameOf(edges[e].dst) = rel["object"]}

\* C21: for each relationship record whose subject and object names are
\* both found, the backend holds exactly one relationship of the resolved
\* type from the subject's name to the object's name once the relationship
\* phase has run, also when several nodes share one of the names.
C21_SingleEdgePerRecord ==
    RelPhaseRan =>
        \A j \in DOMAIN run.resolved :
            Cardinality(EdgesFor(
                Relationships(Exported.rels)[run.resolved[j].at[1]],
                run.resolved[j].type)) = 1


\* the dicts of the exported terms that are written to the node at position
\* i: those of its name in a category that resolves to its label
RecordsFor(i) ==
    LET cats == Categories(Exported.terms)
    IN  UNION {{cats[c].terms[t].data :
                    t \in {x \in DOMAIN cats[c].terms :
                              /\ cats[c].terms[x].id = NameOf(i)
                              /\ IsDict(cats[c].terms[x].data)}} :
               c \in {y \in DOMAIN cats :
                         get_node_type_for_category(cats[y].cat)
                             = nodes[i].label}}

\* the term phase leaves the property k of the node at i as it was, when no
\* record written to the node has the field k
KeptIfAbsent(i, k) ==
    (\A d \in RecordsFor(i) : ~HasKey(d, k)) =>
        Get(nodes'[i].props, k, None) = Get(nodes[i].props, k, None)

\* C22 as stated: when a term is written onto an existing node, every
\* property absent from the source record, definition and source included,
\* keeps the value it had on the node.
C22_AbsentFieldsKept ==
    [][pc = "terms" =>
        \A i \in DOMAIN nodes :
            RecordsFor(i) # {} =>
                \A k \in OptionalTermFields \cup {"definition", "source"} :
                    KeptIfAbsent(i, k)]_vars

\* C22, amended: when a term is written onto an existing node, every
\* optional property (synonyms, variants, organisms, radical_forms,
\* typical_values, applications) absent from the source record keeps the
\* value it had on the node, while definition and source are always
\* written, as the empty string when the record lacks them.
C22_AbsentOptionalFieldsKept ==
    [][pc = "terms" =>
        \A i \in DOMAIN nodes :
            RecordsFor(i) # {} =>
                /\ \A k \in OptionalTermFields : KeptIfAbsent(i, k)
                /\ \A k \in {"definition", "source"} :
                      \E d \in RecordsFor(i) :
                         Get(nodes'[i].props, k, None) = Get(d, k, "")]_vars

\* the term phase of a first run has written a record onto a node the
\* backend held: an optional property the record lacks is still there, and
\* the definition the record lacks is now the empty string
C22_Witness ==
    /\ pc = "rels" /\ hist = <<>>
    /\ \E i \in DOMAIN start.g.nodes :
         /\ RecordsFor(i) # {}
         /\ \E k \in OptionalTermFields :
              /\ HasKey(start.g.nodes[i].props, k)
              /\ \A d \in RecordsFor(i) : ~HasKey(d, k)
              /\ HasKey(nodes[i].props, k)
         /\ \A d \in RecordsFor(i) : ~HasKey(d, "definition")
         /\ Get(start.g.nodes[i].props, "definition", None) \notin {None, ""}
         /\ nodes[i].props["definition"] = ""


\* the positions of the paper records the run has written: the query was
\* issued and did not fail
PapersWritten ==
    {i \in DOMAIN Exported.papers :
        /\ Item("node", "Paper", <<i>>) \in Range(run.writes)
        /\ Item("node", "Paper", <<i>>) \notin Range(run.failed)}

\* the last written record with the paper_id id
LastWritten(id) ==
    CHOOSE i \in PapersWritten :
        /\ Exported.papers[i]["paper_id"] = id
        /\ \A j \in PapersWritten :
              Exported.papers[j]["paper_id"] = id => j <= i

PaperFields == {"doi", "title", "authors", "year", "date_added"}

\* the value written for a field the record lacks: the empty string, the
\* empty list, and no year
PaperDefault(k) ==
    IF k = "authors" THEN "[]" ELSE IF k = "year" THEN None ELSE ""

\* the Paper nodes with the paper_id id
PaperNodes(id) ==
    {n \in DOMAIN nodes :
        nodes[n].label = "Paper" /\ Get(nodes[n].props, "paper_id", None) = id}

\* C23: after a paper record is written there is exactly one Paper node
\* with its paper_id, and the node's doi, title, authors, year and
\* date_added are those of the record written last, whatever the node held
\* before.
C23_PaperOverwrite ==
    \A i \in PapersWritten :
        LET id  == Exported.papers[i]["paper_id"]
            rec == Exported.papers[LastWritten(id)]
        IN  /\ Cardinality(PaperNodes(id)) = 1
            /\ \A n \in PaperNodes(id) : \A k \in PaperFields :
                  Get(nodes[n].props, k, None) = Get(rec, k, PaperDefault(k))

\* a record was written onto a Paper node the backend held with another
\* value in each of the five fields
C23_Witness ==
    \E i \in PapersWritten : \E n \in DOMAIN start.g.nodes :
        /\ start.g.nodes[n].label = "Paper"
        /\ start.g.nodes[n].props["paper_id"] = Exported.papers[i]["paper_id"]
        /\ LastWritten(Exported.papers[i]["paper_id"]) = i
        /\ \A k \in PaperFields :
              Get(start.g.nodes[n].props, k, None)
                  # Get(Exported.papers[i], k, PaperDefault(k))
        /\ Len(nodes) = Len(start.g.nodes)


(***************************************************************************)
(* Properties of the order of the writes                                   *)
(***************************************************************************)

\* the phase an item belongs to: 1 papers, 2 terms, 3 relationships
PhaseOf(it) == IF it.kind = "rel" THEN 3 ELSE IF Len(it.at) = 1 THEN 1 ELSE 2

\* the positions of the exported term records, as <<category, term>>
TermPositions ==
    LET cats == Categories(Exported.terms)
    IN  UNION {{<<c, i>> : i \in DOMAIN cats[c].terms} : c \in DOMAIN cats}

\* C24: within a run every index creation is issued before any node write,
\* every Paper upsert before any term upsert and every node upsert before
\* the first relationship upsert: when a term is attempted every paper
\* record has been, and when a relationship is attempted every paper and
\* every term record has been.
C24_PhaseOrder ==
    /\ run.tried # <<>> => run.ix_tried = NODE_INDEXES
    /\ \A i, j \in DOMAIN run.tried :
          i < j => PhaseOf(run.tried[i]) <= PhaseOf(run.tried[j])
    /\ \A j \in DOMAIN run.tried :
          /\ PhaseOf(run.tried[j]) >= 2 =>
                {<<i>> : i \in DOMAIN Exported.papers} \subseteq TriedAt("node")
          /\ PhaseOf(run.tried[j]) = 3 => TermPositions \subseteq TriedAt("node")

\* a completed run that made indexes and attempted papers, terms of two
\* categories and relationships
C24_Witness ==
    /\ run.outcome = "complete"
    /\ run.ix_tried = NODE_INDEXES
    /\ \A ph \in 1..3 : \E j \in DOMAIN run.tried : PhaseOf(run.tried[j]) = ph
    /\ Len(Categories(Exported.terms)) >= 2
    /\ Len(run.resolved) >= 1


(***************************************************************************)
(* Properties of the organisms criterion                                   *)
(***************************************************************************)

\* values of the organisms argument: absent, empty, one and two organisms
OrganismValues ==
    OrganismArgs \cup {Given(<<>>), Given(<<"o2">>), Given(<<"a", "b">>)}

PreviewModes == {"preview-full", "preview-subgraph"}
ExportModes == {"export-full", "export-subgraph"}
DestructiveModes == ExportModes \cup {"clear-graph"}

\* C26: a preview is a dry run.  In the modes preview-full and
\* preview-subgraph the command never connects, acquires no session and
\* issues no query: the backend's graph and its indexes are as they were.
C26_PreviewIsDryRun ==
    cmd.mode \in PreviewModes =>
        /\ ~cmd.connected
        /\ run = NoRun
        /\ Graph = start.g
        /\ indexes = {}

\* a preview of a corpus with papers, terms and relationships has printed
\* its two tables, on a backend that can be reached and holds nodes
C26_Witness ==
    /\ cmd.mode \in PreviewModes
    /\ preview.printed = {"nodes", "rels"}
    /\ preview.node_total >= 2 /\ preview.rel_total >= 1
    /\ reachable /\ nodes # <<>>
    /\ cmd.exit = 0

\* C27: the modes exclude each other in effect.  Whatever mode flags one
\* command line gives, at most one mode's branch is entered, it is the
\* branch of a flag given (or the help), and only its effects are there: a
\* preview printed by a preview mode only, a run started by an export mode
\* only, a filter call by a subgraph mode only, the graph cleared by
\* clear-graph only.  A destructive mode never runs with another mode.
C27_OneModePerCommand ==
    /\ Cardinality(cmd.ran) <= 1
    /\ cmd.ran \subseteq cmd.flags \cup {"help"}
    /\ \A mode \in cmd.ran \cap DestructiveModes : cmd.ran = {mode}
    /\ preview # NoPreview => cmd.ran \subseteq PreviewModes
    /\ run # NoRun => cmd.ran \subseteq ExportModes
    /\ fcall.called => cmd.ran \subseteq {"preview-subgraph", "export-subgraph"}
    /\ (run = NoRun /\ Graph # start.g) => cmd.ran = {"clear-graph"}

\* a command line with three mode flags or more, two of them destructive,
\* has ended after the one branch it entered
C27_Witness ==
    /\ Cardinality(cmd.flags) >= 3
    /\ Cardinality(cmd.flags \cap DestructiveModes) >= 2
    /\ Cardinality(cmd.ran) = 1
    /\ cmd.exit = 0
    /\ nodes # <<>>

\* C28: the relationship phase never creates, deletes or relabels a node:
\* the nodes and their properties are the same before and after
\* create_relationships, and a record with an endpoint that the backend
\* does not hold, such as a term of a category the filter left out, yields
\* no relationship and no node.
C28_RelPhaseKeepsNodes ==
    [][pc = "rels" =>
        /\ nodes' = nodes
        /\ \A i \in DOMAIN Relationships(Exported.rels) :
              LET rel == Relationships(Exported.rels)[i]
              IN  (/\ {"subject", "predicate", "object"} \subseteq DOMAIN rel
                   /\ \/ MatchByName(Graph, rel["subject"]) = {}
                      \/ MatchByName(Graph, rel["object"]) = {}) =>
                      ~\E e \in DOMAIN edges' :
                          /\ Get(nodes'[edges'[e].src].props, "name", None)
                                = rel["subject"]
                          /\ Get(nodes'[edges'[e].dst].props, "name", None)
                                = rel["object"]]_vars

\* an export of the category mechanisms alone has run: the filter kept a
\* relationship to a term of a category it left out, the write for it was
\* issued and bound nothing, and the backend holds the nodes the node
\* phases left and one relationship between two mechanisms
C28_Witness ==
    /\ cmd.mode = "export-subgraph" /\ run.outcome = "complete"
    /\ Selected(fcall.categories)
    /\ \E i \in DOMAIN Relationships(fcall.result.rels) :
         LET rel == Relationships(fcall.result.rels)[i]
         IN  /\ rel["object"] \in TermIds(terms) \ TermIds(fcall.result.terms)
             /\ <<i>> \in WrittenAt("rel")
             /\ <<i>> \notin {run.resolved[j].at : j \in DOMAIN run.resolved}
             /\ MatchByName(Graph, rel["object"]) = {}
    /\ Len(run.resolved) = 1 /\ Len(edges) = Len(start.g.edges) + 1
    /\ Len(nodes) = Len(start.g.nodes) + run.term_count


(***************************************************************************)
(* processing_status.py: ProcessingStatusTracker.  A file or directory     *)
(* name is a tuple of characters; the time of a call is the token "now".   *)
(***************************************************************************)
MaxPdfs == 2
MaxIssues == 1

\* pdf_path.stem.replace(' ', '_').replace('(', '').replace(')', '')
PaperIdOf(stem) ==
    SelectSeq([i \in DOMAIN stem |-> IF stem[i] = " " THEN "_" ELSE stem[i]],
              LAMBDA c : c \notin {"(", ")"})

\* d.name.startswith('TEMPLATE')
StartsWithTemplate(name) ==
    LET prefix == <<"T", "E", "M", "P", "L", "A", "T", "E">>
    IN  Len(name) >= Len(prefix) /\ SubSeq(name, 1, Len(prefix)) = prefix

\* one entry of status["papers"]; metadata tells whether the metadata.json
\* of a processed paper is missing, readable or unreadable
StatusEntry(stem, processed_papers, metadata) ==
    LET paper_id     == PaperIdOf(stem)
        is_processed == paper_id \in processed_papers
    IN  [pdf_filename |-> stem \o <<".", "p", "d", "f">>,
         paper_id |-> paper_id,
         status |-> IF is_processed THEN "completed" ELSE "pending",
         date_processed |->
            IF is_processed /\ metadata = "readable" THEN "date_added" ELSE None,
         fair_compliance_score |-> None,
         issues |-> IF is_processed /\ metadata = "unreadable"
                    THEN <<"Failed to read metadata">> ELSE <<>>]

\* initialize_status(): pdf_files are the stems of Literature/*.pdf in sorted
\* order, dirs the directories of knowledge-base/papers
initialize_status(pdf_files, dirs, metadata) ==
    LET processed_papers == {d \in dirs : ~StartsWithTemplate(d)}
    IN  [version |-> "1.0.0", last_updated |-> "now",
         total_pdfs |-> Len(pdf_files),
         processed |-> Cardinality(processed_papers),
         pending |-> Len(pdf_files) - Cardinality(processed_papers),
         papers |-> [i \in DOMAIN pdf_files |->
                        StatusEntry(pdf_files[i], processed_papers, metadata)]]

\* the entry "for paper in status['papers']: if paper['paper_id'] ==
\* paper_id: ... break" changes: the first with the paper_id, 0 for none
FirstEntry(entries, paper_id) ==
    IF \E i \in DOMAIN entries : entries[i].paper_id = paper_id
    THEN CHOOSE i \in DOMAIN entries :
            /\ entries[i].paper_id = paper_id
            /\ \A j \in 1..(i - 1) : entries[j].paper_id # paper_id
    ELSE 0

\* sum(1 for p in status["papers"] if p["status"] == st)
CountStatus(entries, st) ==
    Cardinality({i \in DOMAIN entries : entries[i].status = st})

\* load_status() returns None when the file is missing, and the mark_*
\* methods then return False
NoStatus(s) == HasKey(s, "missing")

\* save_status(status)
save_status(s) == [s EXCEPT !.last_updated = "now"]

\* mark_processing(paper_id)
mark_processing(s, paper_id) ==
    LET i == FirstEntry(s.papers, paper_id)
    IN  IF i = 0 THEN save_status(s)
        ELSE save_status([s EXCEPT !.papers[i].status = "processing",
                                   !.papers[i].date_processed = "now"])

\* mark_completed(paper_id, fair_score, issues)
mark_completed(s, paper_id, fair_score, issues) ==
    LET i  == FirstEntry(s.papers, paper_id)
        s1 == IF i = 0 THEN s
              ELSE [s EXCEPT
                      !.papers[i].status = "completed",
                      !.papers[i].date_processed = "now",
                      !.papers[i].fair_compliance_score =
                          IF fair_score # None THEN fair_score ELSE @,
                      !.papers[i].issues =
                          IF Selected(issues) THEN issues.list ELSE @]
    IN  save_status([s1 EXCEPT
                       !.processed = CountStatus(s1.papers, "completed"),
                       !.pending = CountStatus(s1.papers, "pending")])

\* mark_failed(paper_id, error)
mark_failed(s, paper_id, error) ==
    LET i == FirstEntry(s.papers, paper_id)
    IN  IF i = 0 THEN save_status(s)
        ELSE save_status([s EXCEPT
                            !.papers[i].status = "failed",
                            !.papers[i].date_processed = "now",
                            !.papers[i].issues =
                                Append(@, "Processing failed: " \o error)])

\* the PDFs of Literature/, sorted: two of them get the same paper_id
PdfStems ==
    << <<"a", " ", "b">>, <<"a", "_", "b">>, <<"c", "(", "1", ")">> >>

PdfLists ==
    {SelectSeq(PdfStems, LAMBDA s : s \in S) :
        S \in {T \in SUBSET Range(PdfStems) : Cardinality(T) <= MaxPdfs}}

\* the directories of knowledge-base/papers: of a paper with a PDF, of a
\* paper without one, and a template
PaperDirs ==
    {<<"a", "_", "b">>, <<"z">>, <<"T", "E", "M", "P", "L", "A", "T", "E", "_", "x">>}

MetadataFiles == {"missing", "readable", "unreadable"}

\* the paper_id arguments of the mark_* methods
MarkedIds == {PaperIdOf(s) : s \in Range(PdfStems)} \cup {<<"z">>}

FairScores == {None, "90"}
IssueArgs == {Absent, Given(<<>>), Given(<<"i1">>)}

\* --init, and the first run of process_all_papers
InitializeStatus ==
    /\ \E pdf_files \in PdfLists, dirs \in SUBSET PaperDirs,
          metadata \in MetadataFiles :
         status' = initialize_status(pdf_files, dirs, metadata)
    /\ UNCHANGED <<papers, terms, rels, reachable, nodes, edges, indexes, pc,
                   run, hist, preview, fcall, lookup, cmd, start,
                   master_index>>

MarkProcessing ==
    /\ ~NoStatus(status)
    /\ \E paper_id \in MarkedIds : status' = mark_processing(status, paper_id)
    /\ UNCHANGED <<papers, terms, rels, reachable, nodes, edges, indexes, pc,
                   run, hist, preview, fcall, lookup, cmd, start,
                   master_index>>

MarkCompleted ==
    /\ ~NoStatus(status)
    /\ \E paper_id \in MarkedIds, fair_score \in FairScores,
          issues \in IssueArgs :
         status' = mark_completed(status, paper_id, fair_score, issues)
    /\ UNCHANGED <<papers, terms, rels, reachable, nodes, edges, indexes, pc,
                   run, hist, preview, fcall, lookup, cmd, start,
                   master_index>>

\* an entry takes at most MaxIssues issues
MarkFailed ==
    /\ ~NoStatus(status)
    /\ \E paper_id \in MarkedIds :
         /\ \A i \in DOMAIN status.papers :
               Len(status.papers[i].issues) < MaxIssues
         /\ status' = mark_failed(status, paper_id, "e1")
    /\ UNCHANGED <<papers, terms, rels, reachable, nodes, edges, indexes, pc,
                   run, hist, preview, fcall, lookup, cmd, start,
                   master_index>>

InitStatus ==
    /\ papers = <<>> /\ terms = EmptyDict /\ rels = EmptyDict
    /\ reachable = TRUE
    /\ nodes = <<>>
    /\ edges = <<>>
    /\ indexes = {}
    /\ pc = "idle"
    /\ run = NoRun
    /\ hist = <<>>
    /\ preview = NoPreview
    /\ fcall = NoCall
    /\ lookup = NoLookup
    /\ cmd = NoCmd
    /\ start = Started(nodes, edges)
    /\ status = NoStatusFile
    /\ master_index = EmptyDict

NextStatus ==
    \/ InitializeStatus
    \/ MarkProcessing
    \/ MarkCompleted
    \/ MarkFailed

SpecStatus == InitStatus /\ [][NextStatus]_vars

\* C29: the status counters agree with the entries.  After
\* initialize_status and after any sequence of mark_processing,
\* mark_completed and mark_failed calls, the stored "processed" is the
\* number of entries with status "completed" and the stored "pending" the
\* number of entries with status "pending".
C29_CountersConsistent ==
    ~NoStatus(status) =>
        /\ status.processed = CountStatus(status.papers, "completed")
        /\ status.pending = CountStatus(status.papers, "pending")


(***************************************************************************)
(* process_paper.py: PaperProcessor.update_master_index                    *)
(***************************************************************************)
MaxIndexIds == 3

\* paper_entry of update_master_index
PaperEntry(metadata) ==
    [paper_id   |-> metadata["paper_id"],
     doi        |-> Get(metadata, "doi", ""),
     title      |-> Get(metadata, "title", ""),
     authors    |-> Get(metadata, "authors", "[]"),
     year       |-> Get(Get(metadata, "publication", EmptyDict), "year", None),
     date_added |-> Get(metadata, "date_added", None),
     file_path  |-> "knowledge-base/papers/" \o metadata["paper_id"]]

\* master_index["papers"] after "if 'papers' not in master_index:
\* master_index['papers'] = []"
IndexPapers(doc) == Get(doc, "papers", <<>>)

\* an update that adds the entry without looking for an existing one
update_master_index_append(doc, metadata) ==
    IF ~HasKey(metadata, "paper_id") THEN doc
    ELSE Put(Put(doc, "papers", Append(IndexPapers(doc), PaperEntry(metadata))),
             "last_updated", "now")

\* update_master_index(metadata): load_index, replace or append, save_index;
\* metadata["paper_id"] raises KeyError before anything is saved
update_master_index(doc, metadata) ==
    IF ~HasKey(metadata, "paper_id") THEN doc
    ELSE LET ps       == IndexPapers(doc)
             existing == {i \in DOMAIN ps :
                            ps[i]["paper_id"] = metadata["paper_id"]}
             ps1      == IF existing # {}
                         THEN [i \in DOMAIN ps |->
                                 IF ps[i]["paper_id"] # metadata["paper_id"]
                                 THEN ps[i] ELSE PaperEntry(metadata)]
                         ELSE Append(ps, PaperEntry(metadata))
         IN  Put(Put(doc, "papers", ps1), "last_updated", "now")

\* the paper_ids the papers are processed under
IndexIds == Range(SubSeq(<<"p1", "p2", "p3", "p4", "p5">>, 1, MaxIndexIds))

\* the metadata generate_metadata builds and the user completes, and one
\* without paper_id
Metadatas ==
    {[paper_id |-> id, title |-> t] : id \in IndexIds, t \in {"t1", "t2"}}
    \cup {[paper_id |-> "p1", title |-> "t1", doi |-> "10.1000/x",
           authors |-> "[A]", publication |-> [year |-> "2020"],
           date_added |-> "2024-01-01"],
          [title |-> "t1"]}

\* master-index.json before the first call: missing, without "papers",
\* empty, and with two papers
InitIndexes ==
    {EmptyDict,
     [version |-> "1.0.0"],
     [version |-> "1.0.0", papers |-> <<>>],
     [version |-> "1.0.0", last_updated |-> "then",
      papers |-> <<PaperEntry([paper_id |-> "p2", title |-> "t1"]),
                   PaperEntry([paper_id |-> "p1", title |-> "t1"])>>]}

UpdateMasterIndex ==
    /\ \E metadata \in Metadatas :
         master_index' = update_master_index(master_index, metadata)
    /\ UNCHANGED <<papers, terms, rels, reachable, nodes, edges, indexes, pc,
                   run, hist, preview, fcall, lookup, cmd, start, status>>

InitIndex ==
    /\ papers = <<>> /\ terms = EmptyDict /\ rels = EmptyDict
    /\ reachable = TRUE
    /\ nodes = <<>>
    /\ edges = <<>>
    /\ indexes = {}
    /\ pc = "idle"
    /\ run = NoRun
    /\ hist = <<>>
    /\ preview = NoPreview
    /\ fcall = NoCall
    /\ lookup = NoLookup
    /\ cmd = NoCmd
    /\ start = Started(nodes, edges)
    /\ status = NoStatusFile
    /\ master_index \in InitIndexes

NextIndex == UpdateMasterIndex

SpecIndex == InitIndex /\ [][NextIndex]_vars

\* no two entries have the same paper_id
UniqueIds(entries) ==
    \A i, j \in DOMAIN entries :
        i # j => entries[i]["paper_id"] # entries[j]["paper_id"]

\* C30: the master index keeps paper_id unique.  From an index without
\* duplicate paper_ids, every update_master_index call leaves an index with
\* at most one entry per paper_id: it either replaces one entry in place,
\* by an entry of the same paper_id, with the position and all other
\* entries unchanged, or appends exactly one entry, of a paper_id the index
\* did not hold.
C30_IndexKeepsIdsUnique ==
    [][LET ps  == IndexPapers(master_index)
           ps1 == IndexPapers(master_index')
       IN  /\ UniqueIds(ps1)
           /\ \E metadata \in {md \in Metadatas : HasKey(md, "paper_id")} :
                IF \E i \in DOMAIN ps : ps[i]["paper_id"] = metadata["paper_id"]
                THEN \E i \in DOMAIN ps :
                        /\ ps[i]["paper_id"] = metadata["paper_id"]
                        /\ Len(ps1) = Len(ps)
                        /\ ps1[i] = PaperEntry(metadata)
                        /\ \A j \in DOMAIN ps \ {i} : ps1[j] = ps[j]
                ELSE /\ Len(ps1) = Len(ps) + 1
                     /\ SubSeq(ps1, 1, Len(ps)) = ps
                     /\ ps1[Len(ps1)] = PaperEntry(metadata)]_vars

\* the first of the two papers the index held has been replaced in place,
\* and a third paper appended
C30_Witness ==
    /\ Len(IndexPapers(master_index)) = 3
    /\ IndexPapers(master_index)[1]["paper_id"] = "p2"
    /\ IndexPapers(master_index)[1]["title"] = "t2"
    /\ IndexPapers(master_index)[2]["paper_id"] = "p1"
    /\ IndexPapers(master_index)[3]["paper_id"] = "p3"
    /\ master_index["last_updated"] = "now"

=============================================================================
